---- MODULE Spec2Model ----
(***************************************************************************)
(* Verification model of the opo-scraper repository.                       *)
(*                                                                         *)
(* Part 1: the merge / reconciliation engine (src/utils/normalize.js) fed  *)
(* by the raw documents the five scrapers leave in data/raw.               *)
(* Part 2: the deterministic identifier (generateId in scrapers/opodata).  *)
(* Part 3: the cell-level helpers and sheet parsers of the scrapers, each  *)
(* exercised as a function call on enumerated inputs.                      *)
(* Part 4: the financial scraper's scrape() and buildEinMap() as request,  *)
(* response and pause steps; the command line's main().                    *)
(*                                                                         *)
(* JSON leaf values are modelled as strings; the string "null" stands for  *)
(* a JSON null, an undefined value and a missing key alike (the three are  *)
(* indistinguishable to the ?? operator the merge uses).                   *)
(***************************************************************************)
EXTENDS Integers, Sequences, FiniteSets, TLC

\* ------------------------------------------------------------------------
\* Bounds
\* ------------------------------------------------------------------------

\* Longest base record sequence (opodata.json "opos") explored.
MaxBase == 2

\* Largest seed of the digest patterns explored for generateId.
MaxSeed == 1

\* Number of generateId calls explored for one code.
MaxCalls == 2

\* Longest spreadsheet cell text enumerated for the toNum helpers.
MaxCellLen == 3

\* Largest organ count in a Table C1 operand.
MaxCount == 3

\* Largest tier number in a tier cell of the summary sheet.
MaxTier == 2

\* Largest number of sheets in a report workbook.
MaxSheets == 3

\* Largest number of candidates in a search response.
MaxOrgs == 2

\* Largest number of command line arguments.
MaxArgs == 3

\* Largest number of rows in the HRSA sheet.
MaxRows == 3

\* Largest number of data rows in a sheet of the SRTR workbook.
MaxDataRows == 2

\* ------------------------------------------------------------------------
\* Values
\* ------------------------------------------------------------------------

Null == "null"

\* a ?? b
Coalesce(a, b) == IF a /= Null THEN a ELSE b

\* DSA codes are 4 uppercase letters, modelled as letter ordinals (A = 1).
ALOB == <<1, 12, 15, 2>>
AZOB == <<1, 26, 15, 2>>
ZZZZ == <<26, 26, 26, 26>>

\* Codes the base directory may list; ZZZZ only ever occurs in enrichment.
BaseCodes == {ALOB, AZOB}

RECURSIVE localeCompare(_, _)
\* String.prototype.localeCompare on uppercase ASCII codes: -1, 0 or 1.
localeCompare(a, b) ==
  IF a = <<>> /\ b = <<>> THEN 0
  ELSE IF a = <<>> THEN -1
  ELSE IF b = <<>> THEN 1
  ELSE IF Head(a) < Head(b) THEN -1
  ELSE IF Head(a) > Head(b) THEN 1
  ELSE localeCompare(Tail(a), Tail(b))

RECURSIVE insertSorted_dedup(_, _)
\* Variant: a record whose code is already present replaces the earlier one.
insertSorted_dedup(s, r) ==
  IF s = <<>> THEN <<r>>
  ELSE IF localeCompare(Head(s).dsa_code, r.dsa_code) = 0 THEN <<r>> \o Tail(s)
  ELSE IF localeCompare(Head(s).dsa_code, r.dsa_code) > 0 THEN <<r>> \o s
  ELSE <<Head(s)>> \o insertSorted_dedup(Tail(s), r)

RECURSIVE insertSorted(_, _)
\* Insert r after every element that does not compare greater (stable).
insertSorted(s, r) ==
  IF s = <<>> THEN <<r>>
  ELSE IF localeCompare(Head(s).dsa_code, r.dsa_code) > 0 THEN <<r>> \o s
  ELSE <<Head(s)>> \o insertSorted(Tail(s), r)

\* Variant: the map result is written in base order.
sortByDsa_unsorted(s) == s

RECURSIVE sortByDsa(_)
\* merged.sort((a, b) => a.dsa_code.localeCompare(b.dsa_code)); stable.
sortByDsa(s) ==
  IF s = <<>> THEN <<>>
  ELSE insertSorted(sortByDsa(SubSeq(s, 1, Len(s) - 1)), s[Len(s)])

\* ------------------------------------------------------------------------
\* Raw documents (data/raw/<source>.json)
\* ------------------------------------------------------------------------

\* rec[key] in JavaScript: a missing key reads as undefined.
Field(rec, key) == IF key \in DOMAIN rec THEN rec[key] ELSE Null

\* The envelope every scraper writes: {metadata, opos}.
Doc(records) == [opos |-> records]

\* A base record has the key set transformOpo writes; its leaf values are
\* either all unknown ("blank") or all known ("filled").  Top-level keys the
\* merge copies untouched are represented by name and cms_status.
BaseProfiles == {"blank", "filled"}

transformOpo(code, p) ==
  LET V(v) == IF p = "filled" THEN v ELSE Null IN
  [ dsa_code |-> code,
    name |-> "opo-" \o p,
    location |-> [state |-> V("AL"), city |-> V("Mobile"), region |-> V("AL: 3")],
    cms_status |-> [tier |-> V("1"), cycle_year |-> "2023", at_risk |-> V("false")],
    metrics |->
      [ donation_rate |-> V("b-don"),
        transplantation_rate |-> V("b-txp"),
        conversion_rate |-> V("b-conv"),
        donors_recovered |-> V("b-donors"),
        recovery_rate |-> [nhw |-> V("b-nhw"), nhb |-> V("b-nhb"),
                           hispanic |-> V("b-his"), asian |-> V("b-asi")],
        shadow_deaths |-> V("b-shadow"),
        rank |-> V("b-rank"),
        discard_rates |-> [kidney |-> V("b-ki"), liver |-> V("b-li"),
                           heart |-> V("b-hr"), lung |-> V("b-lu")] ],
    financials |-> [revenue |-> V("50"), expenses |-> V("40"),
                    oac_per_organ |-> V("b-oac"), ceo_compensation |-> V("b-ceo")],
    relationships |-> [transplant_centers |-> IF p = "filled" THEN <<"tc-base">> ELSE <<>>] ]

BaseRecords == {transformOpo(c, p) : c \in BaseCodes, p \in BaseProfiles}

\* Base documents: every record sequence up to MaxBase, in any order, with
\* or without repeated dsa_codes (the scraper maps the site's nodes 1:1).
BaseDocs == {Doc(s) : s \in UNION {[1..n -> BaseRecords] : n \in 0..MaxBase}}

\* An enrichment record carries every value ("full"), none ("blank") or
\* some of them ("mixed").
EnrichProfiles == {"full", "mixed", "blank"}

\* Record pushed by the financial scraper (ein is never null there).
propublicaRecord(code, p) ==
  LET A(v) == IF p = "blank" THEN Null ELSE v
      F(v) == IF p = "full" THEN v ELSE Null IN
  [ dsa_code |-> code, name |-> "pp", ein |-> "860707697",
    revenue |-> A("100"), expenses |-> F("90"), assets |-> F("70"),
    ceo_compensation |-> F("p-ceo"), oac_per_organ |-> Null,
    tax_year |-> A("2022"), program_revenue |-> F("p-prog"),
    contributions |-> F("p-contr"), investment_income |-> F("p-inv") ]

\* Record pushed by the HRSA scraper.
hrsaRecord(code, p) ==
  LET A(v) == IF p = "blank" THEN Null ELSE v
      F(v) == IF p = "full" THEN v ELSE Null IN
  [ dsa_code |-> code, name |-> "hrsa", provider_number |-> "01P001",
    city |-> F("Birmingham"), address |-> A("1 Main St"), state |-> A("GA"),
    zip |-> F("35233"), phone |-> F("555-0100"),
    transplant_centers |-> IF p = "full" THEN <<"tc-h1", "tc-h2">> ELSE <<>> ]

\* Record pushed by the SRTR scraper (dsa_code plus extractMetrics).
srtrRecord(code, p) ==
  LET A(v) == IF p = "blank" THEN Null ELSE v
      F(v) == IF p = "full" THEN v ELSE Null IN
  [ dsa_code |-> code,
    conversion_rate |-> F("s-conv"), donation_rate |-> A("s-don"),
    transplantation_rate |-> F("s-txp"),
    organs_transplanted_per_donor |-> A("s-otpd"),
    observed_expected_ratio |-> F("s-oe"),
    observed_expected_by_organ |-> F("s-oe-organ"),  \* opaque JSON object
    total_donors |-> F("s-donors"), total_referrals |-> Null,
    discard_rates |-> [kidney |-> A("s-ki"), liver |-> F("s-li"),
                       heart |-> F("s-hr"), lung |-> A("s-lu")] ]

\* Record pushed by the CMS QCOR scraper.
cmsRecord(code, p) ==
  [ dsa_code |-> code, name |-> "cms",
    latest_tier |-> IF p = "blank" THEN Null ELSE "3" ]

\* Enrichment documents: empty, one record for a code the base may list,
\* one record for ZZZZ (a code the base never lists), or both.
EnrichDocs(known, full, unknown) ==
  {Doc(<<>>)} \cup {Doc(<<r>>) : r \in known}
    \cup {Doc(<<unknown>>), Doc(<<full, unknown>>)}

PropublicaDocs ==
  EnrichDocs({propublicaRecord(ALOB, p) : p \in EnrichProfiles},
             propublicaRecord(ALOB, "full"), propublicaRecord(ZZZZ, "full"))

HrsaDocs ==
  EnrichDocs({hrsaRecord(ALOB, p) : p \in EnrichProfiles},
             hrsaRecord(ALOB, "full"), hrsaRecord(ZZZZ, "full"))

SrtrDocs ==
  EnrichDocs({srtrRecord(ALOB, p) : p \in {"full", "mixed"}},
             srtrRecord(ALOB, "full"), srtrRecord(ZZZZ, "full"))

CmsDocs ==
  EnrichDocs({cmsRecord(ALOB, p) : p \in {"full", "blank"}},
             cmsRecord(ALOB, "full"), cmsRecord(ZZZZ, "full"))

\* loadRawData's result for a file that does not exist (null).
Absent == <<>>

\* ------------------------------------------------------------------------
\* normalize.js
\* ------------------------------------------------------------------------

\* index[dsa] when no record was indexed under dsa (undefined).
NoEntry == <<>>

\* buildIndex(opos)[dsa]: the last record carrying the code, if any.
buildIndex(opos, dsa) ==
  LET hits == {i \in 1..Len(opos) : opos[i].dsa_code = dsa} IN
  IF hits = {} THEN NoEntry
  ELSE opos[CHOOSE i \in hits : \A j \in hits : j <= i]

\* raw ? buildIndex(raw.opos) : {}, read at dsa.
indexOf(raw, dsa) == IF raw = Absent THEN NoEntry ELSE buildIndex(raw.opos, dsa)

\* Variant: a matching record replaces the base financials as a whole.
mergeFinancials_replace(opo, propublicaEntry) ==
  IF propublicaEntry = NoEntry THEN opo.financials
  ELSE [ revenue |-> propublicaEntry.revenue,
         expenses |-> propublicaEntry.expenses,
         oac_per_organ |-> propublicaEntry.oac_per_organ,
         ceo_compensation |-> propublicaEntry.ceo_compensation,
         assets |-> propublicaEntry.assets,
         tax_year |-> propublicaEntry.tax_year ]

mergeFinancials(opo, propublicaEntry) ==
  IF propublicaEntry = NoEntry THEN opo.financials
  ELSE [ revenue |-> Coalesce(propublicaEntry.revenue, opo.financials.revenue),
         expenses |-> Coalesce(propublicaEntry.expenses, opo.financials.expenses),
         oac_per_organ |-> Coalesce(propublicaEntry.oac_per_organ, opo.financials.oac_per_organ),
         ceo_compensation |-> Coalesce(propublicaEntry.ceo_compensation, opo.financials.ceo_compensation),
         assets |-> Coalesce(propublicaEntry.assets, Null),
         tax_year |-> Coalesce(propublicaEntry.tax_year, Null) ]

\* Variant: without an HRSA record the location degrades to nulls.
mergeLocation_degraded(opo, hrsaEntry) ==
  IF hrsaEntry = NoEntry
  THEN [state |-> Null, city |-> Null, region |-> Null]
  ELSE [ state |-> opo.location.state,
         city |-> Coalesce(hrsaEntry.city, opo.location.city),
         address |-> Coalesce(hrsaEntry.address, Null),
         phone |-> Coalesce(hrsaEntry.phone, Null),
         region |-> opo.location.region ]

mergeLocation(opo, hrsaEntry) ==
  IF hrsaEntry = NoEntry THEN opo.location
  ELSE [ state |-> opo.location.state,
         city |-> Coalesce(hrsaEntry.city, opo.location.city),
         address |-> Coalesce(hrsaEntry.address, Null),
         phone |-> Coalesce(hrsaEntry.phone, Null),
         region |-> opo.location.region ]

mergeMetrics(opo, srtrEntry) ==
  IF srtrEntry = NoEntry THEN opo.metrics
  ELSE [ donors_recovered |-> opo.metrics.donors_recovered,
         recovery_rate |-> opo.metrics.recovery_rate,
         shadow_deaths |-> opo.metrics.shadow_deaths,
         rank |-> opo.metrics.rank,
         conversion_rate |-> Coalesce(srtrEntry.conversion_rate, opo.metrics.conversion_rate),
         donation_rate |-> Coalesce(srtrEntry.donation_rate, opo.metrics.donation_rate),
         transplantation_rate |-> Coalesce(srtrEntry.transplantation_rate, opo.metrics.transplantation_rate),
         organs_transplanted_per_donor |-> Coalesce(srtrEntry.organs_transplanted_per_donor, Null),
         observed_expected_ratio |-> Coalesce(srtrEntry.observed_expected_ratio, Null),
         observed_expected_by_organ |-> Coalesce(srtrEntry.observed_expected_by_organ, Null),
         total_donors_srtr |-> Coalesce(srtrEntry.total_donors, Null),
         discard_rates |->
           [ kidney |-> Coalesce(srtrEntry.discard_rates.kidney, opo.metrics.discard_rates.kidney),
             liver |-> Coalesce(srtrEntry.discard_rates.liver, opo.metrics.discard_rates.liver),
             heart |-> Coalesce(srtrEntry.discard_rates.heart, opo.metrics.discard_rates.heart),
             lung |-> Coalesce(srtrEntry.discard_rates.lung, opo.metrics.discard_rates.lung) ] ]

\* Variant: the HRSA centres are appended to the base centres.
mergeTransplantCenters_append(opo, hrsaEntry) ==
  IF hrsaEntry = NoEntry THEN opo.relationships.transplant_centers
  ELSE opo.relationships.transplant_centers \o hrsaEntry.transplant_centers

mergeTransplantCenters(opo, hrsaEntry) ==
  IF hrsaEntry = NoEntry \/ Len(hrsaEntry.transplant_centers) = 0
  THEN opo.relationships.transplant_centers
  ELSE hrsaEntry.transplant_centers

\* The body of opos.map(opo => ...) in run().
mergeOpo(opo, raw) ==
  LET dsa == opo.dsa_code
      propublica == indexOf(raw["propublica"], dsa)
      hrsa == indexOf(raw["hrsa"], dsa)
      srtr == indexOf(raw["srtr"], dsa) IN
  [ dsa_code |-> opo.dsa_code,
    name |-> opo.name,
    cms_status |-> opo.cms_status,
    location |-> mergeLocation(opo, hrsa),
    financials |-> mergeFinancials(opo, propublica),
    metrics |-> mergeMetrics(opo, srtr),
    relationships |-> [transplant_centers |-> mergeTransplantCenters(opo, hrsa)],
    ein |-> IF propublica = NoEntry THEN Null ELSE Coalesce(propublica.ein, Null) ]

\* Variant: a source's count is the number of records in its document.
coverageCount_ofDocument(opos, raw, source) ==
  IF source = "opodata" THEN Len(opos)
  ELSE IF raw[source] = Absent THEN 0 ELSE Len(raw[source].opos)

\* coverage[source] after the map: base records with an entry in the index.
coverageCount(opos, raw, source) ==
  IF source = "opodata" THEN Len(opos)
  ELSE Cardinality({i \in 1..Len(opos) : indexOf(raw[source], opos[i].dsa_code) /= NoEntry})

\* Math.round(x) for x = (count / total) * 100, total > 0: half rounds up.
MathRound100(count, total) == (200 * count + total) \div (2 * total)

\* `${Math.round((count / total) * 100)}%`; 0 / 0 is NaN.
pctString(count, total) ==
  IF total = 0 THEN "NaN%" ELSE ToString(MathRound100(count, total)) \o "%"

Sources == {"opodata", "propublica", "hrsa", "srtr", "cms-qcor"}

\* The output object of run() for a base document that exists.
normalizeOutput(raw) ==
  LET opos == raw["opodata"].opos
      merged == sortByDsa([i \in 1..Len(opos) |-> mergeOpo(opos[i], raw)]) IN
  [ metadata |->
      [ total_opos |-> Len(merged),
        sources |-> [s \in Sources |->
          [ count |-> coverageCount(opos, raw, s),
            pct |-> IF s = "opodata" THEN "100%"
                    ELSE pctString(coverageCount(opos, raw, s), Len(merged)) ] ] ],
    opos |-> merged ]

\* ------------------------------------------------------------------------
\* State
\* ------------------------------------------------------------------------

VARIABLES
  raw,    \* data/raw: source |-> Absent or the document written there
  out,    \* data/normalized/opos.json: NoOutput or the object run() wrote
  err,    \* TRUE once run() has thrown
  pc,     \* "scraping" while scrapers may still run, "done" after run()
  idCode, \* the dsa_code generateId is called with
  idHash, \* the SHA-256 hex digest of "opo:" + idCode
  ids,    \* the strings generateId(idCode) has returned so far
  args,   \* the arguments of the helper function being exercised
  ret,    \* NoCall, or what that helper returned for args
  finPc,       \* position of the financial scraper's scrape()
  einMap,      \* scrape(): einMap, dsa_code |-> EIN (Null: no entry)
  needSearch,  \* scrape(): needSearch, the OPOs left to the name search
  results,     \* results: the records scrape() has pushed so far, or the
               \* dsa_code |-> EIN object buildEinMap() is filling
  requests,    \* the requests issued so far, in order, with their outcome
  link,        \* "free", "inflight" (awaiting apiGet) or "pausing" (awaiting sleep)
  pauses,      \* number of sleep(DELAY) calls that have completed
  cliPc,       \* position of the CLI's main()
  cliArgs,     \* main(): args, the result of parseArgs
  cliLog       \* what main() has run so far, in order

mergeVars == <<raw, out, err, pc>>

idVars == <<idCode, idHash, ids>>

callVars == <<args, ret>>

finVars == <<finPc, einMap, needSearch, results, requests, link, pauses>>

cliVars == <<cliPc, cliArgs, cliLog>>

vars ==
  <<raw, out, err, pc, idCode, idHash, ids, args, ret,
    finPc, einMap, needSearch, results, requests, link, pauses,
    cliPc, cliArgs, cliLog>>

\* The helper has not been called.
NoCall == <<>>

\* No helper function is being exercised.
CallIdle ==
  /\ args = <<>>
  /\ ret = NoCall

\* The financial scraper is not running.
FinIdle ==
  /\ finPc = [stage |-> "idle", i |-> 0]
  /\ einMap = <<>>
  /\ needSearch = <<>>
  /\ results = <<>>
  /\ requests = <<>>
  /\ link = "free"
  /\ pauses = 0

\* The CLI is not running.
CliIdle ==
  /\ cliPc = [stage |-> "idle", i |-> 0]
  /\ cliArgs = <<>>
  /\ cliLog = <<>>

\* Nothing has been written to data/normalized.
NoOutput == <<>>

\* A fresh checkout: no raw document, no normalized output.
MergeInit ==
  /\ raw = [s \in Sources |-> Absent]
  /\ out = NoOutput
  /\ err = FALSE
  /\ pc = "scraping"

\* A scraper's final writeFileSync of its {metadata, opos} envelope.
writeRaw(source, doc) ==
  /\ pc = "scraping"
  /\ raw[source] = Absent
  /\ raw' = [raw EXCEPT ![source] = doc]
  /\ UNCHANGED <<out, err, pc>>
  /\ UNCHANGED <<idVars, callVars, finVars, cliVars>>

ScrapeOpodata == \E d \in BaseDocs : writeRaw("opodata", d)

\* The financial scraper throws before writing unless opodata.json exists.
ScrapePropublica ==
  /\ raw["opodata"] /= Absent
  /\ \E d \in PropublicaDocs : writeRaw("propublica", d)

ScrapeHrsa == \E d \in HrsaDocs : writeRaw("hrsa", d)

ScrapeSrtr == \E d \in SrtrDocs : writeRaw("srtr", d)

ScrapeCmsQcor == \E d \in CmsDocs : writeRaw("cms-qcor", d)

\* normalize.run(): throws without a base document, else merges and writes.
run ==
  /\ pc = "scraping"
  /\ pc' = "done"
  /\ IF raw["opodata"] = Absent
     THEN err' = TRUE /\ out' = out
     ELSE err' = err /\ out' = normalizeOutput(raw)
  /\ UNCHANGED raw
  /\ UNCHANGED <<idVars, callVars, finVars, cliVars>>

\* generateId is not being exercised.
IdIdle ==
  /\ idCode = ALOB
  /\ idHash = <<>>
  /\ ids = <<>>

Init == MergeInit /\ IdIdle /\ CallIdle /\ FinIdle /\ CliIdle

Next ==
  \/ ScrapeOpodata
  \/ ScrapePropublica
  \/ ScrapeHrsa
  \/ ScrapeSrtr
  \/ ScrapeCmsQcor
  \/ run

Spec == Init /\ [][Next]_vars

\* ------------------------------------------------------------------------
\* Vocabulary of the properties
\* ------------------------------------------------------------------------

\* run() has returned normally.
Merged == pc = "done" /\ ~err

baseOpos == raw["opodata"].opos

outOpos == out.opos

Range(s) == {s[i] : i \in 1..Len(s)}

\* The base record an output record was mapped from (name and dsa_code
\* together determine a base record's content).
BaseOf(r) ==
  CHOOSE b \in Range(baseOpos) : b.dsa_code = r.dsa_code /\ b.name = r.name

\* The enrichment record of a source that matches a code: the last one
\* listed under that code, NoEntry when the file or the record is missing.
Matching(source, dsa) ==
  IF raw[source] = Absent THEN NoEntry
  ELSE LET recs == raw[source].opos
           hits == {i \in 1..Len(recs) : recs[i].dsa_code = dsa} IN
       IF hits = {} THEN NoEntry
       ELSE recs[CHOOSE i \in hits : \A j \in hits : j <= i]

CodesOf(s) == {s[i].dsa_code : i \in 1..Len(s)}

CountCode(s, c) == Cardinality({i \in 1..Len(s) : s[i].dsa_code = c})

PairwiseDistinct(s) ==
  \A i, j \in 1..Len(s) : i /= j => s[i].dsa_code /= s[j].dsa_code

\* Leaf fields of the canonical location, financials and metrics.
LocationLeaves == {"state", "city", "address", "phone", "region"}

FinancialLeaves ==
  {"revenue", "expenses", "assets", "ceo_compensation", "oac_per_organ", "tax_year"}

MetricLeaves ==
  {"donation_rate", "transplantation_rate", "conversion_rate",
   "organs_transplanted_per_donor", "observed_expected_ratio",
   "observed_expected_by_organ", "donors_recovered", "shadow_deaths", "rank"}

Organs == {"kidney", "liver", "heart", "lung"}

\* Every listed leaf the entry supplies is the merged value.
EnrichmentWins(mergedPart, entry, leaves) ==
  \A f \in leaves :
    Field(entry, f) /= Null => Field(mergedPart, f) = Field(entry, f)

\* Every listed leaf the entry does not supply keeps the base value.
BaseKept(mergedPart, basePart, entry, leaves) ==
  \A f \in leaves :
    Field(entry, f) = Null => Field(mergedPart, f) = Field(basePart, f)

\* No listed leaf known in the base is unknown after the merge.
NothingLost(mergedPart, basePart, leaves) ==
  \A f \in leaves :
    Field(basePart, f) /= Null => Field(mergedPart, f) /= Null

\* ------------------------------------------------------------------------
\* Properties of the merge
\* ------------------------------------------------------------------------

\* C1 (as stated): for any base record sequence the output holds exactly one
\* record per distinct dsa_code: no code occurs in two output records and the
\* output codes are the base codes.
C1_OneRecordPerCode ==
  Merged => /\ PairwiseDistinct(outOpos)
            /\ CodesOf(outOpos) = CodesOf(baseOpos)

\* C1 (amended): the output codes are the base codes and every code occurs
\* in the output as often as in the base, so the output holds exactly one
\* record per distinct dsa_code whenever the base codes are pairwise distinct.
C1_OneRecordPerBaseRecord ==
  Merged => /\ CodesOf(outOpos) = CodesOf(baseOpos)
            /\ Len(outOpos) = Len(baseOpos)
            /\ \A c \in BaseCodes : CountCode(outOpos, c) = CountCode(baseOpos, c)
            /\ (PairwiseDistinct(baseOpos) => PairwiseDistinct(outOpos))

\* A base of two records with different codes has been merged.
C1_Witness ==
  /\ Merged
  /\ Len(baseOpos) = 2
  /\ PairwiseDistinct(baseOpos)
  /\ CodesOf(outOpos) = {ALOB, AZOB}

\* C2: whatever the order of the base records, every adjacent pair of output
\* records is in non-decreasing dsa_code order.
C2_SortedByDsa ==
  Merged =>
    \A i \in 1..(Len(outOpos) - 1) :
      localeCompare(outOpos[i].dsa_code, outOpos[i + 1].dsa_code) <= 0

\* A base listed in descending code order has been merged.
C2_Witness ==
  /\ Merged
  /\ Len(baseOpos) = 2
  /\ baseOpos[1].dsa_code = AZOB
  /\ baseOpos[2].dsa_code = ALOB
  /\ outOpos[1].dsa_code = ALOB

\* C3 (as stated): for a base record with a matching enrichment record, every
\* leaf of location, financials and metrics that the enrichment record
\* supplies non-null is the merged value.
C3_EnrichmentWins ==
  Merged =>
    \A i \in 1..Len(outOpos) :
      LET r == outOpos[i]
          hrsa == Matching("hrsa", r.dsa_code)
          propublica == Matching("propublica", r.dsa_code)
          srtr == Matching("srtr", r.dsa_code) IN
      /\ hrsa /= NoEntry => EnrichmentWins(r.location, hrsa, LocationLeaves)
      /\ propublica /= NoEntry =>
           EnrichmentWins(r.financials, propublica, FinancialLeaves)
      /\ srtr /= NoEntry =>
           /\ EnrichmentWins(r.metrics, srtr, MetricLeaves)
           /\ EnrichmentWins(r.metrics.discard_rates, srtr.discard_rates, Organs)

\* C3 restricted to the leaves other than location.state (diagnostic: the
\* only leaf on which the statement fails).
C3_EnrichmentWinsExceptState ==
  Merged =>
    \A i \in 1..Len(outOpos) :
      LET r == outOpos[i]
          hrsa == Matching("hrsa", r.dsa_code)
          propublica == Matching("propublica", r.dsa_code)
          srtr == Matching("srtr", r.dsa_code) IN
      /\ hrsa /= NoEntry =>
           EnrichmentWins(r.location, hrsa, LocationLeaves \ {"state"})
      /\ propublica /= NoEntry =>
           EnrichmentWins(r.financials, propublica, FinancialLeaves)
      /\ srtr /= NoEntry =>
           /\ EnrichmentWins(r.metrics, srtr, MetricLeaves)
           /\ EnrichmentWins(r.metrics.discard_rates, srtr.discard_rates, Organs)

\* C4: for a base record with a matching enrichment record, every leaf of
\* location, financials and metrics the enrichment record leaves null or
\* undefined keeps the base value, and no leaf known in the base becomes null.
C4_BaseKept ==
  Merged =>
    \A i \in 1..Len(outOpos) :
      LET r == outOpos[i]
          b == BaseOf(r)
          hrsa == Matching("hrsa", r.dsa_code)
          propublica == Matching("propublica", r.dsa_code)
          srtr == Matching("srtr", r.dsa_code) IN
      /\ hrsa /= NoEntry =>
           /\ BaseKept(r.location, b.location, hrsa, LocationLeaves)
           /\ NothingLost(r.location, b.location, LocationLeaves)
      /\ propublica /= NoEntry =>
           /\ BaseKept(r.financials, b.financials, propublica, FinancialLeaves)
           /\ NothingLost(r.financials, b.financials, FinancialLeaves)
      /\ srtr /= NoEntry =>
           /\ BaseKept(r.metrics, b.metrics, srtr, MetricLeaves)
           /\ NothingLost(r.metrics, b.metrics, MetricLeaves)
           /\ BaseKept(r.metrics.discard_rates, b.metrics.discard_rates,
                       srtr.discard_rates, Organs)
           /\ NothingLost(r.metrics.discard_rates, b.metrics.discard_rates, Organs)
           /\ r.metrics.recovery_rate = b.metrics.recovery_rate

\* A record whose base values are known was merged with enrichment records
\* that leave leaves null: the base ceo_compensation, city and liver discard
\* rate are still there.
C4_Witness ==
  /\ Merged
  /\ \E i \in 1..Len(outOpos) :
       LET r == outOpos[i] IN
       /\ Matching("propublica", r.dsa_code) /= NoEntry
       /\ Matching("propublica", r.dsa_code).ceo_compensation = Null
       /\ r.financials.ceo_compensation = "b-ceo"
       /\ Matching("hrsa", r.dsa_code) /= NoEntry
       /\ Matching("hrsa", r.dsa_code).city = Null
       /\ r.location.city = "Mobile"
       /\ Matching("srtr", r.dsa_code) /= NoEntry
       /\ Matching("srtr", r.dsa_code).discard_rates.liver = Null
       /\ r.metrics.discard_rates.liver = "b-li"

\* C5 (as stated): with a matching cms-qcor record whose latest_tier is
\* non-null the merged cms_status.tier is that latest_tier; otherwise the
\* base tier is retained.
C5_CmsTierFeedsStatus ==
  Merged =>
    \A i \in 1..Len(outOpos) :
      LET r == outOpos[i]
          cms == Matching("cms-qcor", r.dsa_code) IN
      IF cms /= NoEntry /\ cms.latest_tier /= Null
      THEN r.cms_status.tier = cms.latest_tier
      ELSE r.cms_status.tier = BaseOf(r).cms_status.tier

\* C5 (diagnostic): what the code does instead; cms_status is the base's.
C5_CmsStatusIsBase ==
  Merged => \A i \in 1..Len(outOpos) : outOpos[i].cms_status = BaseOf(outOpos[i]).cms_status

EnrichmentSources == Sources \ {"opodata"}

\* Base records whose code is listed in the source's document.
BaseRecordsCovered(source) ==
  IF raw[source] = Absent THEN {}
  ELSE {i \in 1..Len(baseOpos) : baseOpos[i].dsa_code \in CodesOf(raw[source].opos)}

\* C6: an enrichment record whose code the base does not list yields no
\* output record and no error, and is counted nowhere: each coverage count is
\* the number of base records whose code the source lists, hence at most the
\* number of output records.
C6_UnknownKeyDropped ==
  /\ pc = "done" /\ raw["opodata"] /= Absent => ~err
  /\ Merged =>
       /\ CodesOf(outOpos) \subseteq CodesOf(baseOpos)
       /\ ZZZZ \notin CodesOf(outOpos)
       /\ \A s \in EnrichmentSources :
            /\ out.metadata.sources[s].count = Cardinality(BaseRecordsCovered(s))
            /\ out.metadata.sources[s].count <= Len(outOpos)
       /\ out.metadata.sources["opodata"].count = Len(baseOpos)

\* A base has been merged with an HRSA document that lists ZZZZ next to a
\* known code, and with a financial document that lists only ZZZZ.
C6_Witness ==
  /\ Merged
  /\ Len(baseOpos) = 2
  /\ raw["hrsa"] /= Absent
  /\ CodesOf(raw["hrsa"].opos) = {ALOB, ZZZZ}
  /\ out.metadata.sources["hrsa"].count = 1
  /\ raw["propublica"] /= Absent
  /\ CodesOf(raw["propublica"].opos) = {ZZZZ}
  /\ out.metadata.sources["propublica"].count = 0

\* C7: the merged transplant_centers is the HRSA record's whole list when
\* that list is non-empty, and the base record's list unchanged when the HRSA
\* record is missing or its list is empty.
C7_TransplantCentersWholesale ==
  Merged =>
    \A i \in 1..Len(outOpos) :
      LET r == outOpos[i]
          hrsa == Matching("hrsa", r.dsa_code) IN
      r.relationships.transplant_centers =
        IF hrsa /= NoEntry /\ hrsa.transplant_centers /= <<>>
        THEN hrsa.transplant_centers
        ELSE BaseOf(r).relationships.transplant_centers

\* A base record with a centre of its own was merged with an HRSA record
\* listing two centres, and another one with an HRSA record listing none.
C7_Witness ==
  /\ Merged
  /\ \E i \in 1..Len(outOpos) :
       /\ BaseOf(outOpos[i]).relationships.transplant_centers = <<"tc-base">>
       /\ Matching("hrsa", outOpos[i].dsa_code) /= NoEntry
       /\ outOpos[i].relationships.transplant_centers = <<"tc-h1", "tc-h2">>

\* The part of an output record each enrichment source feeds.
FedBy(source, r) ==
  CASE source = "hrsa" -> <<r.location, r.relationships.transplant_centers>>
    [] source = "propublica" -> <<r.financials>>
    [] source = "srtr" -> <<r.metrics>>
    [] OTHER -> <<r.cms_status>>

\* C8: with the base document present and any enrichment documents absent,
\* run() completes and emits one record per base record whose parts fed by an
\* absent source equal the base record's (ein null without the financial
\* document); only an absent base document makes run() throw, and then
\* nothing is written.
C8_NeverFailsForMissingEnrichment ==
  pc = "done" =>
    /\ err <=> raw["opodata"] = Absent
    /\ err => out = NoOutput
    /\ ~err =>
         /\ Len(outOpos) = Len(baseOpos)
         /\ \A i \in 1..Len(outOpos) :
              /\ \A s \in EnrichmentSources :
                   raw[s] = Absent =>
                     FedBy(s, outOpos[i]) = FedBy(s, BaseOf(outOpos[i]))
              /\ raw["propublica"] = Absent => outOpos[i].ein = Null

\* A base with known values has been merged with no enrichment document at
\* all.
C8_Witness ==
  /\ Merged
  /\ \A s \in EnrichmentSources : raw[s] = Absent
  /\ Len(outOpos) = 2
  /\ outOpos[1].financials.revenue = "50"
  /\ outOpos[1].location.state = "AL"

\* The nearest integer to 100 * count / total (half rounds up), total > 0.
RoundedPercent(count, total) ==
  CHOOSE n \in 0..100 :
    /\ 2 * total * n <= 200 * count + total
    /\ 200 * count + total < 2 * total * (n + 1)

\* C9 (as stated): for a base of any length, zero included, every source's
\* pct is "<n>%" with n the integer round(100 * count / total_opos) in 0..100.
C9_CoveragePct ==
  Merged =>
    \A s \in Sources :
      LET count == out.metadata.sources[s].count
          total == out.metadata.total_opos IN
      /\ count \in Nat
      /\ \E n \in 0..100 :
           /\ out.metadata.sources[s].pct = ToString(n) \o "%"
           /\ total > 0 => n = RoundedPercent(count, total)

\* C9 (diagnostic): the statement holds of every non-empty base.
C9_CoveragePctNonEmpty ==
  Merged /\ out.metadata.total_opos > 0 =>
    \A s \in Sources :
      LET count == out.metadata.sources[s].count
          total == out.metadata.total_opos IN
      /\ count \in 0..total
      /\ out.metadata.sources[s].pct = ToString(RoundedPercent(count, total)) \o "%"

\* ------------------------------------------------------------------------
\* generateId (scrapers/opodata.js)
\* ------------------------------------------------------------------------

\* The characters digest('hex') and Number.prototype.toString(16) produce.
HexChars ==
  <<"0", "1", "2", "3", "4", "5", "6", "7", "8", "9", "a", "b", "c", "d", "e", "f">>

HexCharSet == {HexChars[i] : i \in 1..16}

\* The value of one hexadecimal character.
hexValue(c) == (CHOOSE i \in 1..16 : HexChars[i] = c) - 1

\* parseInt(s, 16) for a string of two hex characters.
parseInt16(s) == 16 * hexValue(s[1]) + hexValue(s[2])

\* n.toString(16) for 0 <= n < 256: no leading zero.
toString16(n) ==
  IF n < 16 THEN <<HexChars[n + 1]>>
  ELSE <<HexChars[(n \div 16) + 1], HexChars[(n % 16) + 1]>>

\* n & 0x3f
and3f(n) == n % 64

\* n | 0x80, for 0 <= n < 256
or80(n) == IF (n \div 128) % 2 = 1 THEN n ELSE n + 128

\* hash.slice(from, to) with JavaScript's 0-based, end-exclusive indices.
slice(hash, from, to) == SubSeq(hash, from + 1, to)

\* parts.join('-')
join(parts) ==
  parts[1] \o <<"-">> \o parts[2] \o <<"-">> \o parts[3] \o <<"-">>
    \o parts[4] \o <<"-">> \o parts[5]

\* Variant: the variant byte is formatted without forcing its top bits.
generateId_rawVariant(hash) ==
  join(<< slice(hash, 0, 8),
          slice(hash, 8, 12),
          <<"4">> \o slice(hash, 13, 16),
          toString16(parseInt16(slice(hash, 16, 18))) \o slice(hash, 18, 20),
          slice(hash, 20, 32) >>)

\* generateId, as a function of the hex digest of "opo:" + dsaCode.
generateId(hash) ==
  join(<< slice(hash, 0, 8),
          slice(hash, 8, 12),
          <<"4">> \o slice(hash, 13, 16),
          toString16(or80(and3f(parseInt16(slice(hash, 16, 18))))) \o slice(hash, 18, 20),
          slice(hash, 20, 32) >>)

\* Digests explored: 64 hex characters in which the two characters of the
\* variant byte (indices 16, 17) and the dropped character (index 12) take
\* every value, the others following a pattern chosen by seed.
Digest(seed, hi, lo, dropped) ==
  [k \in 1..64 |->
     IF k = 17 THEN HexChars[hi + 1]
     ELSE IF k = 18 THEN HexChars[lo + 1]
     ELSE IF k = 13 THEN HexChars[dropped + 1]
     ELSE HexChars[((seed * 5 + k * 7) % 16) + 1]]

Digests ==
  {Digest(seed, hi, lo, dropped) :
     seed \in 0..MaxSeed, hi \in 0..15, lo \in 0..15, dropped \in {0, 4, 15}}

\* One code and its digest; no id generated yet.
IdInit ==
  /\ idCode \in BaseCodes \cup {ZZZZ}
  /\ idHash \in Digests
  /\ ids = <<>>

\* No pipeline is running.
MergeIdle ==
  /\ raw = [s \in Sources |-> Absent]
  /\ out = NoOutput
  /\ err = FALSE
  /\ pc = "idle"

\* One call generateId(idCode); the digest of a code never changes.
GenerateId ==
  /\ Len(ids) < MaxCalls
  /\ ids' = Append(ids, generateId(idHash))
  /\ UNCHANGED <<idCode, idHash>>
  /\ UNCHANGED <<mergeVars, callVars, finVars, cliVars>>

InitId == IdInit /\ MergeIdle /\ CallIdle /\ FinIdle /\ CliIdle

NextId == GenerateId

SpecId == InitId /\ [][NextId]_vars

\* C10: every id generateId returns is five dash-separated groups of
\* lowercase hex characters of lengths 8-4-4-4-12, the third group starting
\* with '4' and the fourth with one of 8, 9, a, b; repeated calls for the same
\* code return the same id.
C10_UuidShape ==
  /\ \A i \in 1..Len(ids) :
       LET id == ids[i] IN
       /\ Len(id) = 36
       /\ \A k \in 1..36 :
            IF k \in {9, 14, 19, 24} THEN id[k] = "-" ELSE id[k] \in HexCharSet
       /\ id[15] = "4"
       /\ id[20] \in {"8", "9", "a", "b"}
  /\ \A i, j \in 1..Len(ids) : ids[i] = ids[j]

\* Two ids have been generated from a digest whose variant byte is 0x05, a
\* byte that would print as a single character if its top bits were not set.
C10_Witness ==
  /\ Len(ids) = 2
  /\ idHash[17] = "0"
  /\ idHash[18] = "5"
  /\ SubSeq(ids[1], 20, 21) = <<"8", "5">>

\* ------------------------------------------------------------------------
\* Cell coercion: the toNum helpers of the three spreadsheet/JSON extractors
\* ------------------------------------------------------------------------

\* JavaScript values a cell can hold.  A finite number is mant / 10^frac with
\* no trailing zero in the fraction.
JsNull == [t |-> "null"]

JsUndefined == [t |-> "undefined"]

NaN == [t |-> "NaN"]

Str(chars) == [t |-> "string", s |-> chars]

RECURSIVE Num(_, _)
Num(mant, frac) ==
  IF frac > 0 /\ mant % 10 = 0 THEN Num(mant \div 10, frac - 1)
  ELSE [t |-> "number", mant |-> mant, frac |-> frac]

DigitChars == <<"0", "1", "2", "3", "4", "5", "6", "7", "8", "9">>

IsDigit(c) == \E i \in 1..10 : DigitChars[i] = c

digitValue(c) == (CHOOSE i \in 1..10 : DigitChars[i] = c) - 1

RECURSIVE trimStart(_)
\* Leading white space is skipped by parseFloat.
trimStart(chars) ==
  IF chars /= <<>> /\ Head(chars) = " " THEN trimStart(Tail(chars)) ELSE chars

RECURSIVE leadingDigits(_)
\* Number of digit characters the text starts with.
leadingDigits(chars) ==
  IF chars /= <<>> /\ IsDigit(Head(chars)) THEN 1 + leadingDigits(Tail(chars)) ELSE 0

RECURSIVE digitsValue(_)
digitsValue(chars) ==
  IF chars = <<>> THEN 0
  ELSE 10 * digitsValue(SubSeq(chars, 1, Len(chars) - 1)) + digitValue(chars[Len(chars)])

\* parseFloat(val): the argument is converted to a string first; the number
\* is the longest prefix [+-]digits[.digits] after the leading white space,
\* NaN when that prefix holds no digit.  (Exponents and "Infinity" need
\* characters the enumerated texts do not contain.)
parseFloat(val) ==
  IF val.t = "number" THEN val
  ELSE IF val.t /= "string" THEN NaN
  ELSE
    LET t == trimStart(val.s)
        signed == t /= <<>> /\ Head(t) \in {"+", "-"}
        negative == t /= <<>> /\ Head(t) = "-"
        u == IF signed THEN Tail(t) ELSE t
        n1 == leadingDigits(u)
        rest == SubSeq(u, n1 + 1, Len(u))
        n2 == IF rest /= <<>> /\ Head(rest) = "." THEN leadingDigits(Tail(rest)) ELSE 0
        digits == SubSeq(u, 1, n1) \o SubSeq(rest, 2, n2 + 1)
        magnitude == digitsValue(digits) IN
    IF n1 + n2 = 0 THEN NaN
    ELSE Num(IF negative THEN 0 - magnitude ELSE magnitude, n2)

\* Variant: an unparseable value becomes 0.
toNumOpodata_zero(val) ==
  IF val = Str(<<>>) \/ val = JsNull \/ val = JsUndefined THEN JsNull
  ELSE IF parseFloat(val) = NaN THEN Num(0, 0) ELSE parseFloat(val)

\* toNum of the base directory extractor.
toNumOpodata(val) ==
  IF val = Str(<<>>) \/ val = JsNull \/ val = JsUndefined THEN JsNull
  ELSE IF parseFloat(val) = NaN THEN JsNull ELSE parseFloat(val)

\* toNum of the SRTR extractor.
toNumSrtr(val) ==
  IF val = JsNull \/ val = JsUndefined \/ val = Str(<<>>) \/ val = Str(<<"N", "/", "A">>)
  THEN JsNull
  ELSE IF parseFloat(val) = NaN THEN JsNull ELSE parseFloat(val)

\* toNum of the CMS QCOR extractor.
toNumCms(val) ==
  IF val = JsNull \/ val = JsUndefined \/ val = Str(<<>>)
       \/ val = Str(<<"N", "/", "A">>) \/ val = Str(<<"-">>)
  THEN JsNull
  ELSE IF parseFloat(val) = NaN THEN JsNull ELSE parseFloat(val)

\* Cells: every text of up to MaxCellLen characters over a few digits,
\* signs, a point, a letter and a space, the texts the documentation names,
\* and the non-text values a sheet or a JSON node can hold.
Cells ==
  {Str(chars) : chars \in UNION {[1..n -> {"0", "1", "5", ".", "-", "+", "a", " "}] :
                                   n \in 0..MaxCellLen}}
    \cup {Str(<<"N", "/", "A">>), Str(<<"a", "b", "c">>), Str(<<"1", "2", ".", "5">>),
          Str(<<"1", "2", "a", "b">>)}
    \cup {JsNull, JsUndefined, Num(0, 0), Num(125, 1), Num(3, 0)}

\* The three helpers are applied to the same cell.
CoerceCell ==
  /\ args.fn = "toNum"
  /\ ret = NoCall
  /\ ret' = [ opodata |-> toNumOpodata(args.val),
              srtr |-> toNumSrtr(args.val),
              cms |-> toNumCms(args.val) ]
  /\ UNCHANGED <<args, mergeVars, idVars, finVars, cliVars>>

InitCell ==
  /\ args \in {[fn |-> "toNum", val |-> c] : c \in Cells}
  /\ ret = NoCall
  /\ MergeIdle /\ IdIdle /\ FinIdle /\ CliIdle

SpecCell == InitCell /\ [][CoerceCell]_vars

\* The values the contract names as "no value".
CellSentinels == {Str(<<>>), JsNull, JsUndefined, Str(<<"N", "/", "A">>), Str(<<"-">>)}

\* A text without any digit.
NonNumericText(val) ==
  val.t = "string" /\ \A k \in 1..Len(val.s) : ~IsDigit(val.s[k])

\* A text made of digits, with at most one point between two digits.
DecimalText(val) ==
  /\ val.t = "string"
  /\ val.s /= <<>>
  /\ \A k \in 1..Len(val.s) : IsDigit(val.s[k]) \/ val.s[k] = "."
  /\ Cardinality({k \in 1..Len(val.s) : val.s[k] = "."}) <= 1
  /\ IsDigit(val.s[1])
  /\ IsDigit(val.s[Len(val.s)])

C11_WitnessDash ==
  /\ ret /= NoCall
  /\ args.val = Str(<<"-">>)
  /\ ret.opodata = JsNull

\* ------------------------------------------------------------------------
\* SRTR: discard rate of one organ from the Table C1 rows
\* ------------------------------------------------------------------------

\* /Table C1/i on the sheet names that occur.
matchesTableC1(name) == name \in {"Table C1", "OPO table c1"}

RECURSIVE firstWith(_, _)
\* The inner loop of getVal: the value of the first row that has the column.
firstWith(rows, colName) ==
  IF rows = <<>> THEN <<>>
  ELSE IF colName \in DOMAIN Head(rows) THEN <<Head(rows)[colName]>>
  ELSE firstWith(Tail(rows), colName)

RECURSIVE getVal(_, _)
\* getVal(sheets, /Table C1/i, colName): sheets in insertion order.
getVal(sheets, colName) ==
  IF sheets = <<>> THEN JsNull
  ELSE IF ~matchesTableC1(Head(sheets).name) THEN getVal(Tail(sheets), colName)
  ELSE IF firstWith(Head(sheets).rows, colName) /= <<>>
       THEN firstWith(Head(sheets).rows, colName)[1]
  ELSE getVal(Tail(sheets), colName)

abbrevMap == [kidney |-> "KI", liver |-> "LI", heart |-> "HR", lung |-> "LU"]

\* The Table C1 column of an organ: "transplanted" or "not transplanted".
c1Col(abbrev, fate) == abbrev \o "s recovered for transplant, " \o fate

RECURSIVE Pow10(_)
Pow10(k) == IF k = 0 THEN 1 ELSE 10 * Pow10(k - 1)

\* The numerator of a number over the denominator 10^frac.
scaled(x, frac) == x.mant * Pow10(frac - x.frac)

\* Variant: the quotient is truncated to two decimals.
roundedRate_truncated(a, total) == Num((10000 * a) \div total, 2)

\* Math.round((a / total) * 10000) / 100, total > 0.
roundedRate(a, total) == Num((20000 * a + total) \div (2 * total), 2)

\* Variant: an unknown operand yields a rate of 0.
calcDiscardRate_nullAsZero(sheets, organ) ==
  IF organ \notin DOMAIN abbrevMap THEN JsNull
  ELSE
    LET abbrev == abbrevMap[organ]
        notTransplanted == toNumSrtr(getVal(sheets, c1Col(abbrev, "not transplanted")))
        transplanted == toNumSrtr(getVal(sheets, c1Col(abbrev, "transplanted"))) IN
    IF notTransplanted = JsNull \/ transplanted = JsNull THEN Num(0, 0)
    ELSE
      LET frac == IF notTransplanted.frac > transplanted.frac
                  THEN notTransplanted.frac ELSE transplanted.frac
          a == scaled(notTransplanted, frac)
          total == a + scaled(transplanted, frac) IN
      IF total = 0 THEN Num(0, 0)
      ELSE IF total > 0 THEN roundedRate(a, total)
      ELSE roundedRate(0 - a, 0 - total)

\* calcDiscardRate(sheets, organ).
calcDiscardRate(sheets, organ) ==
  IF organ \notin DOMAIN abbrevMap THEN JsNull
  ELSE
    LET abbrev == abbrevMap[organ]
        notTransplanted == toNumSrtr(getVal(sheets, c1Col(abbrev, "not transplanted")))
        transplanted == toNumSrtr(getVal(sheets, c1Col(abbrev, "transplanted"))) IN
    IF notTransplanted = JsNull \/ transplanted = JsNull THEN JsNull
    ELSE
      LET frac == IF notTransplanted.frac > transplanted.frac
                  THEN notTransplanted.frac ELSE transplanted.frac
          a == scaled(notTransplanted, frac)
          total == a + scaled(transplanted, frac) IN
      IF total = 0 THEN Num(0, 0)
      ELSE IF total > 0 THEN roundedRate(a, total)
      ELSE roundedRate(0 - a, 0 - total)

\* The ways a sheet can hold an operand, which is unknown (<<>>) or a count
\* <<k>>; the rendering <<>> stands for a row that lacks the column.
Renderings(operand) ==
  IF operand = <<>> THEN {JsNull, Str(<<"N", "/", "A">>), <<>>}
  ELSE {Num(operand[1], 0), Str(<<DigitChars[operand[1] + 1]>>)}

\* The sheets of one OPO: a table that is not C1 holding the same column
\* names, then Table C1 with cell cn of the not-transplanted column in row
\* rn and cell ct of the transplanted column in row rt.
OpoSheets(c1Name, abbrev, cn, rn, ct, rt) ==
  LET both == {c1Col(abbrev, "not transplanted"), c1Col(abbrev, "transplanted")}
      row(k) ==
        [c \in {col \in both : IF col = c1Col(abbrev, "not transplanted")
                                 THEN rn = k /\ cn /= <<>>
                                 ELSE rt = k /\ ct /= <<>>}
           |-> IF c = c1Col(abbrev, "not transplanted") THEN cn ELSE ct] IN
  << [name |-> "Table B1", rows |-> <<[c \in both |-> Num(7, 0)]>>],
     [name |-> c1Name, rows |-> <<row(1), row(2)>>] >>

CalcDiscardRate ==
  /\ args.fn = "calcDiscardRate"
  /\ ret = NoCall
  /\ ret' = [rate |-> calcDiscardRate(args.sheets, args.organ)]
  /\ UNCHANGED <<args, mergeVars, idVars, finVars, cliVars>>

InitDiscard ==
  /\ \E organ \in Organs \cup {"pancreas"},
        n \in {<<>>} \cup {<<k>> : k \in 0..MaxCount},
        t \in {<<>>} \cup {<<k>> : k \in 0..MaxCount},
        c1Name \in {"Table C1", "OPO table c1"}, rn \in 1..2, rt \in 1..2 :
       \E cn \in Renderings(n), ct \in Renderings(t) :
         LET abbrev == IF organ \in DOMAIN abbrevMap THEN abbrevMap[organ] ELSE "KI" IN
         args = [ fn |-> "calcDiscardRate",
                  sheets |-> OpoSheets(c1Name, abbrev, cn, rn, ct, rt),
                  organ |-> organ,
                  n |-> n,
                  t |-> t ]
  /\ ret = NoCall
  /\ MergeIdle /\ IdIdle /\ FinIdle /\ CliIdle

SpecDiscard == InitDiscard /\ [][CalcDiscardRate]_vars

\* The discard rate of a known organ has been computed.
DiscardDone == ret /= NoCall /\ args.organ \in Organs

BothKnown == args.n /= <<>> /\ args.t /= <<>>

\* C12: with operands n (recovered, not transplanted) and t (recovered,
\* transplanted) of Table C1, the rate is null if either is null, 0 if
\* n + t = 0, and otherwise 100 * n / (n + t) rounded to two decimals, a
\* value between 0 and 100; (1, 3) gives 25.
C12_DiscardRate ==
  DiscardDone =>
    /\ ~BothKnown => ret.rate = JsNull
    /\ BothKnown /\ args.n[1] + args.t[1] = 0 => ret.rate = Num(0, 0)
    /\ BothKnown /\ args.n[1] + args.t[1] > 0 =>
         \E h \in 0..10000 :
           /\ ret.rate = Num(h, 2)
           /\ 2 * h * (args.n[1] + args.t[1]) <= 20000 * args.n[1] + (args.n[1] + args.t[1])
           /\ 20000 * args.n[1] - (args.n[1] + args.t[1]) <= 2 * h * (args.n[1] + args.t[1])
    /\ args.n = <<1>> /\ args.t = <<3>> => ret.rate = Num(25, 0)

\* The rate of (2, 1), which needs rounding, has been computed: 66.67.
C12_Witness ==
  /\ DiscardDone
  /\ args.n = <<2>>
  /\ args.t = <<1>>
  /\ ret.rate = Num(6667, 2)

UpperChars == <<"A", "B", "C", "D", "E", "F", "G", "H", "I", "J", "K", "L", "M", "N", "O", "P", "Q", "R", "S", "T", "U", "V", "W", "X", "Y", "Z">>

LowerChars == <<"a", "b", "c", "d", "e", "f", "g", "h", "i", "j", "k", "l", "m", "n", "o", "p", "q", "r", "s", "t", "u", "v", "w", "x", "y", "z">>

IsUpper(c) == \E i \in 1..26 : UpperChars[i] = c

LowerOf == [c \in {UpperChars[i] : i \in 1..26} |->
              LowerChars[CHOOSE i \in 1..26 : UpperChars[i] = c]]

\* String.prototype.toLowerCase
toLowerCase(chars) ==
  [k \in 1..Len(chars) |-> IF chars[k] \in DOMAIN LowerOf THEN LowerOf[chars[k]] ELSE chars[k]]

\* sub occurs in chars at position i (1-based).
occursAt(chars, sub, i) ==
  /\ i >= 1
  /\ i + Len(sub) - 1 <= Len(chars)
  /\ SubSeq(chars, i, i + Len(sub) - 1) = sub

\* String.prototype.includes
includes(chars, sub) == \E i \in 1..(Len(chars) + 1) : occursAt(chars, sub, i)

RECURSIVE trimEnd(_)
trimEnd(chars) ==
  IF chars /= <<>> /\ chars[Len(chars)] = " "
  THEN trimEnd(SubSeq(chars, 1, Len(chars) - 1)) ELSE chars

\* String.prototype.trim
trim(chars) == trimEnd(trimStart(chars))

\* /a.*b/i: a occurs, and b occurs somewhere after it.
matchesThenI(chars, a, b) ==
  LET lower == toLowerCase(chars) IN
  \E i \in 1..Len(lower) :
    /\ occursAt(lower, a, i)
    /\ \E j \in (i + Len(a))..Len(lower) : occursAt(lower, b, j)

RECURSIVE natDigits(_)
\* The decimal digits of a natural number.
natDigits(n) ==
  IF n < 10 THEN <<DigitChars[n + 1]>>
  ELSE natDigits(n \div 10) \o <<DigitChars[(n % 10) + 1]>>

\* String(value) for the values a cell holds.
JsString(val) ==
  IF val.t = "string" THEN val.s
  ELSE IF val.t = "null" THEN <<"n", "u", "l", "l">>
  ELSE IF val.t = "undefined" THEN <<"u", "n", "d", "e", "f", "i", "n", "e", "d">>
  ELSE IF val.t = "NaN" THEN <<"N", "a", "N">>
  ELSE
    LET magnitude == IF val.mant < 0 THEN 0 - val.mant ELSE val.mant
        whole == natDigits(magnitude \div Pow10(val.frac))
        part == natDigits(Pow10(val.frac) + (magnitude % Pow10(val.frac))) IN
    (IF val.mant < 0 THEN <<"-">> ELSE <<>>)
      \o whole
      \o (IF val.frac = 0 THEN <<>> ELSE <<".">> \o Tail(part))

\* Truthiness of a cell value.
truthy(val) ==
  /\ val.t \notin {"null", "undefined", "NaN"}
  /\ val /= Str(<<>>)
  /\ ~(val.t = "number" /\ val.mant = 0)

\* ------------------------------------------------------------------------
\* CMS QCOR: the multi-year summary sheet
\* ------------------------------------------------------------------------

YEARS == <<2019, 2020, 2021, 2022, 2023>>

\* for (let i = 0; i < 20; i++): rows probed for the identifier header.
ProbeRows == 20

\* for (i = mainHeaderRow + 1; i < mainHeaderRow + 5; ...): year-row probe.
YearProbeRows == 5

\* Columns of one family (tier, donation rate, transplant rate).
BlockWidth == 5

\* a ?? b
nullish(a, b) == IF a = JsNull \/ a = JsUndefined THEN b ELSE a

Least(S) == CHOOSE x \in S : \A y \in S : x <= y

\* rows[i] with i counted from 0; a row past the end has no cells.
rowAt(rows, i) == IF i + 1 \in DOMAIN rows THEN rows[i + 1] ELSE <<>>

\* row[j] with j counted from 0.
cellAt(row, j) == IF j + 1 \in DOMAIN row THEN row[j + 1] ELSE JsUndefined

\* c && typeof c === 'string' && /opo.*code/i.test(c)
isOpoCodeHeader(c) ==
  truthy(c) /\ c.t = "string" /\ matchesThenI(c.s, <<"o", "p", "o">>, <<"c", "o", "d", "e">>)

\* code && typeof code === 'string' && /^[A-Z]{4}$/.test(code.trim())
isCodeCell(c) ==
  /\ truthy(c)
  /\ c.t = "string"
  /\ Len(trim(c.s)) = 4
  /\ \A k \in 1..4 : IsUpper(trim(c.s)[k])

mainHeaderRowOf(rows) ==
  LET hits == {i \in 0..(ProbeRows - 1) :
                 \E j \in DOMAIN rowAt(rows, i) : isOpoCodeHeader(rowAt(rows, i)[j])} IN
  IF hits = {} THEN -1 ELSE Least(hits)

\* The first row below the header with a cell c === 2019 || c === 2020 ||
\* c === '2019' || c === '2020'.
yearRowOf(rows, mainHeaderRow) ==
  LET hits == {i \in (mainHeaderRow + 1)..(mainHeaderRow + YearProbeRows - 1) :
                 \E j \in DOMAIN rowAt(rows, i) :
                   rowAt(rows, i)[j] \in {Num(2019, 0), Num(2020, 0),
                                          Str(<<"2", "0", "1", "9">>),
                                          Str(<<"2", "0", "2", "0">>)}} IN
  IF hits = {} THEN -1 ELSE Least(hits)

codeIdxOf(mainHeaders) ==
  LET hits == {j \in DOMAIN mainHeaders : isOpoCodeHeader(mainHeaders[j])} IN
  IF hits = {} THEN -1 ELSE Least(hits) - 1

\* findIndex(h => h && typeof h === 'string' && /organ.*procurement|opo/i.test(h))
nameIdxOf(mainHeaders) ==
  LET hits == {j \in DOMAIN mainHeaders :
                 /\ truthy(mainHeaders[j])
                 /\ mainHeaders[j].t = "string"
                 /\ \/ matchesThenI(mainHeaders[j].s, <<"o", "r", "g", "a", "n">>,
                                     <<"p", "r", "o", "c", "u", "r", "e", "m", "e", "n", "t">>)
                    \/ includes(toLowerCase(mainHeaders[j].s), <<"o", "p", "o">>)} IN
  IF hits = {} THEN -1 ELSE Least(hits) - 1

tierStartCol(codeIdx) == codeIdx + 1

\* Variant: the donation-rate block starts one column early.
donRateStartCol_overlap(codeIdx) == tierStartCol(codeIdx) + BlockWidth - 1

donRateStartCol(codeIdx) == tierStartCol(codeIdx) + BlockWidth

txpRateStartCol(codeIdx) == donRateStartCol(codeIdx) + BlockWidth

dataStart(mainHeaderRow, yearRow) ==
  IF yearRow /= -1 THEN yearRow + 1 ELSE mainHeaderRow + 1

\* row[k] ? String(row[k]).trim() : null
trimmedOrNull(c) == IF truthy(c) THEN Str(trim(JsString(c))) ELSE JsNull

\* The position of a year in YEARS, counted from 0.
yearPos(year) == (CHOOSE y \in 1..Len(YEARS) : YEARS[y] = year) - 1

\* Variant: any earlier year of the window stands in for a missing tier.
fallbackTier_anyYear(tierHistory) ==
  nullish(tierHistory[2022],
    nullish(tierHistory[2021], nullish(tierHistory[2020], nullish(tierHistory[2019], JsNull))))

\* tierHistory[2022] ?? null
fallbackTier(tierHistory) == nullish(tierHistory[2022], JsNull)

\* Variant: the earlier of the two years is preferred.
latestTier_leftToRight(tierHistory) ==
  nullish(tierHistory[2022], nullish(tierHistory[2023], JsNull))

\* tierHistory[2023] ?? tierHistory[2022] ?? null
latestTier(tierHistory) == nullish(tierHistory[2023], fallbackTier(tierHistory))

\* The record pushed for one data row.
summaryRecord(row, codeIdx, nameIdx) ==
  LET tierHistory == [year \in Range(YEARS) |->
                        toNumCms(cellAt(row, tierStartCol(codeIdx) + yearPos(year)))] IN
  [ dsa_code |-> trim(cellAt(row, codeIdx).s),
    name |-> trimmedOrNull(cellAt(row, nameIdx)),
    tier_history |-> tierHistory,
    latest_tier |-> latestTier(tierHistory),
    donation_rate_categories |->
      [year \in Range(YEARS) |->
         trimmedOrNull(cellAt(row, donRateStartCol(codeIdx) + yearPos(year)))],
    transplant_rate_categories |->
      [year \in Range(YEARS) |->
         trimmedOrNull(cellAt(row, txpRateStartCol(codeIdx) + yearPos(year)))] ]

RECURSIVE dataRecords(_, _, _, _)
\* for (let i = dataStart; i < rows.length; i++)
dataRecords(rows, i, codeIdx, nameIdx) ==
  IF i >= Len(rows) THEN <<>>
  ELSE IF ~isCodeCell(cellAt(rowAt(rows, i), codeIdx))
       THEN dataRecords(rows, i + 1, codeIdx, nameIdx)
  ELSE <<summaryRecord(rowAt(rows, i), codeIdx, nameIdx)>>
         \o dataRecords(rows, i + 1, codeIdx, nameIdx)

\* /summary/i.test(n)
isSummaryName(name) == includes(toLowerCase(name), <<"s", "u", "m", "m", "a", "r", "y">>)

\* workbook: the sheets in SheetNames order, each with its name and rows.
parseSummarySheet(workbook) ==
  LET found == {k \in DOMAIN workbook : isSummaryName(workbook[k].name)} IN
  IF found = {} THEN <<>>
  ELSE
    LET rows == workbook[Least(found)].rows
        mainHeaderRow == mainHeaderRowOf(rows) IN
    IF mainHeaderRow = -1 THEN <<>>
    ELSE
      LET yearRow == yearRowOf(rows, mainHeaderRow)
          mainHeaders == rowAt(rows, mainHeaderRow)
          codeIdx == codeIdxOf(mainHeaders)
          nameIdx == nameIdxOf(mainHeaders) IN
      dataRecords(rows, dataStart(mainHeaderRow, yearRow), codeIdx, nameIdx)

\* A summary sheet with the identifier in column c: title rows, the
\* identifier header at row h, the year header g rows below it (none when
\* g = 0), a row that looks like data between the two headers, then the OPO
\* row with the given tier cells, a blank row, a second OPO row whose tier
\* cells hold a number, the sentinels and a blank, and a totals row.  Category
\* cells are padded texts; with blank, those of the first year are empty.
summaryRows(h, g, c, tiers, blank) ==
  LET later == h + g
      width == c + 1 + 3 * BlockWidth
      blankRow == [j \in 1..width |-> JsNull]
      titleRow == [j \in 1..width |-> IF j = 1 THEN Str(<<"P", "u", "b", "l", "i", "c", " ", "O", "P", "O", " ", "R", "e", "p", "o", "r", "t">>) ELSE JsNull]
      mainHeaders ==
        [j \in 1..width |->
           IF j - 1 = c - 1 THEN Str(<<"O", "P", "O", " ", "N", "a", "m", "e">>)
           ELSE IF j - 1 = c THEN Str(<<"O", "P", "O", " ", "C", "o", "d", "e">>)
           ELSE IF j - 1 = c + 1 THEN Str(<<"T", "i", "e", "r">>)
           ELSE IF j - 1 = c + 1 + BlockWidth THEN Str(<<"D", "o", "n", "a", "t", "i", "o", "n", " ", "R", "a", "t", "e">>)
           ELSE IF j - 1 = c + 1 + 2 * BlockWidth THEN Str(<<"T", "r", "a", "n", "s", "p", "l", "a", "n", "t", " ", "R", "a", "t", "e">>)
           ELSE JsNull]
      yearHeaders ==
        [j \in 1..width |->
           IF j - 1 > c THEN Num(YEARS[((j - 2 - c) % BlockWidth) + 1], 0) ELSE JsNull]
      category(letter, k, empty) ==
        IF empty /\ k = 1 THEN Str(<<>>) ELSE Str(<<" ", letter, DigitChars[k + 1], " ">>)
      dataRow(code, name, cells, empty) ==
        [j \in 1..width |->
           IF j - 1 < c - 1 THEN JsNull
           ELSE IF j - 1 = c - 1 THEN Str(name)
           ELSE IF j - 1 = c THEN Str(code)
           ELSE IF j - 1 <= c + BlockWidth THEN cells[j - 1 - c]
           ELSE IF j - 1 <= c + 2 * BlockWidth
                THEN category("D", j - 1 - c - BlockWidth, empty)
           ELSE category("T", j - 1 - c - 2 * BlockWidth, empty)]
      ones == [k \in 1..BlockWidth |-> Num(1, 0)]
      others == <<Num(1, 0), Str(<<"-">>), Str(<<"N", "/", "A">>), JsNull, Num(3, 0)>> IN
  [n \in 1..(later + 5) |->
     LET i == n - 1 IN
     IF i < h THEN titleRow
     ELSE IF i = h THEN mainHeaders
     ELSE IF g >= 1 /\ i = later THEN yearHeaders
     ELSE IF g >= 2 /\ i = h + 1 THEN dataRow(<<"Z", "Z", "Z", "Z">>, <<"B", "e", "t", "w", "e", "e", "n", " ", "h", "e", "a", "d", "e", "r", "s">>, ones, FALSE)
     ELSE IF i < later THEN blankRow
     ELSE IF i = later + 1 THEN dataRow(<<" ", "A", "L", "O", "B", " ">>, <<"L", "e", "g", "a", "c", "y", " ", "o", "f", " ", "H", "o", "p", "e">>, tiers, blank)
     ELSE IF i = later + 2 THEN blankRow
     ELSE IF i = later + 3 THEN dataRow(<<"A", "Z", "O", "B">>, <<"D", "o", "n", "o", "r", " ", "N", "e", "t", "w", "o", "r", "k">>, others, FALSE)
     ELSE dataRow(<<"T", "o", "t", "a", "l">>, <<"A", "l", "l">>, [k \in 1..BlockWidth |-> JsNull], FALSE)]

\* The workbook of a layout: a notes sheet, then the data sheet.
summaryWorkbook(a) ==
  << [name |-> <<"N", "o", "t", "e", "s">>, rows |-> <<>>],
     [name |-> a.sheetName, rows |-> summaryRows(a.h, a.g, a.c, a.tiers, a.blank)] >>

ParseSummarySheet ==
  /\ args.fn = "parseSummarySheet"
  /\ ret = NoCall
  /\ ret' = [opos |-> parseSummarySheet(summaryWorkbook(args))]
  /\ UNCHANGED <<args, mergeVars, idVars, finVars, cliVars>>

\* Layouts: the identifier header at row 0, 7, the last probed row or the
\* first row out of reach; the year header up to YearProbeRows rows below it
\* (0: none); the identifier in column 1 or 2; every tier cell of the first
\* OPO row blank or a tier number.
InitSummary ==
  /\ \E h \in {0, 7, ProbeRows - 1, ProbeRows}, g \in 0..YearProbeRows, c \in 1..2,
        tiers \in [1..BlockWidth -> {JsNull} \cup {Num(k, 0) : k \in 1..MaxTier}],
        blank \in BOOLEAN, sheetName \in {<<"O", "P", "O", " ", "S", "u", "m", "m", "a", "r", "y">>, <<"D", "a", "t", "a">>} :
       /\ blank => g = 1
       /\ sheetName = <<"D", "a", "t", "a">> => g = 2 /\ c = 1 /\ tiers[1] = JsNull /\ tiers[2] = JsNull
       /\ args = [ fn |-> "parseSummarySheet",
                   sheetName |-> sheetName,
                   h |-> h,
                   g |-> g,
                   c |-> c,
                   tiers |-> tiers,
                   blank |-> blank ]
  /\ ret = NoCall
  /\ MergeIdle /\ IdIdle /\ FinIdle /\ CliIdle

SpecSummary == InitSummary /\ [][ParseSummarySheet]_vars

SummaryDone == ret /= NoCall /\ args.fn = "parseSummarySheet"

\* C14: latest_tier is tier_history[2023] when that is known, else
\* tier_history[2022] when that is known, else null; a tier known only in
\* 2019-2021 never becomes latest_tier, and 2023 is preferred over 2022.
C14_LatestTier ==
  SummaryDone =>
    \A k \in DOMAIN ret.opos :
      LET r == ret.opos[k] IN
      /\ r.tier_history[2023] /= JsNull => r.latest_tier = r.tier_history[2023]
      /\ r.tier_history[2023] = JsNull /\ r.tier_history[2022] /= JsNull =>
           r.latest_tier = r.tier_history[2022]
      /\ r.tier_history[2023] = JsNull /\ r.tier_history[2022] = JsNull =>
           r.latest_tier = JsNull

\* A record whose 2023 tier is unknown took its latest tier from 2022 although
\* 2021 has a different known tier.
C14_Witness ==
  /\ SummaryDone
  /\ \E k \in DOMAIN ret.opos :
       /\ ret.opos[k].tier_history[2023] = JsNull
       /\ ret.opos[k].tier_history[2022] = Num(2, 0)
       /\ ret.opos[k].tier_history[2021] = Num(1, 0)
       /\ ret.opos[k].latest_tier = Num(2, 0)

\* The years of a record that have a known tier.
KnownYears(r) == {year \in Range(YEARS) : r.tier_history[year] /= JsNull}

Greatest(S) == CHOOSE x \in S : \A y \in S : y <= x

\* C15 as stated: latest_tier is the tier of the most recent year of the
\* five-year window that has a known value, and is null only when no year has.
C15_MostRecentKnownYear ==
  SummaryDone =>
    \A k \in DOMAIN ret.opos :
      LET r == ret.opos[k] IN
      IF KnownYears(r) = {} THEN r.latest_tier = JsNull
      ELSE r.latest_tier = r.tier_history[Greatest(KnownYears(r))]

\* C15 as the code has it: latest_tier is the tier of the most recent of the
\* last two years of the window that has a known value, and is null whenever
\* neither 2023 nor 2022 has one.
C15_MostRecentOfLastTwo ==
  SummaryDone =>
    \A k \in DOMAIN ret.opos :
      LET r == ret.opos[k]
          lastTwo == KnownYears(r) \cap {2022, 2023} IN
      IF lastTwo = {} THEN r.latest_tier = JsNull
      ELSE r.latest_tier = r.tier_history[Greatest(lastTwo)]

\* A record with a tier known in 2021 only has a null latest tier.
C15_Witness ==
  /\ SummaryDone
  /\ \E k \in DOMAIN ret.opos :
       /\ KnownYears(ret.opos[k]) = {2021}
       /\ ret.opos[k].latest_tier = JsNull

\* The rows after row `after` that hold an identifier in column c.
DataRowsAfter(rows, after, c) ==
  {i \in (after + 1)..(Len(rows) - 1) : isCodeCell(cellAt(rowAt(rows, i), c))}

\* C16: with the identifier header at row h (within the first 20 rows) and
\* the year header found at row y below it, the records are the identifier
\* rows after the later header row, in order (h = 7, y = 9: from row 10);
\* with the identifier in column c, year k of the window has its tier in
\* column c+k, its donation-rate category in column c+5+k and its
\* transplant-rate category in column c+10+k (k = 1..5).
C16_HeaderStitching ==
  SummaryDone /\ isSummaryName(args.sheetName)
    /\ args.h < ProbeRows /\ args.g \in 1..(YearProbeRows - 1) =>
    LET rows == summaryWorkbook(args)[2].rows
        c == args.c
        later == IF args.h + args.g > args.h THEN args.h + args.g ELSE args.h
        dataIdx == DataRowsAfter(rows, later, c) IN
    /\ Len(ret.opos) = Cardinality(dataIdx)
    /\ \A i \in dataIdx :
         LET r == ret.opos[Cardinality({j \in dataIdx : j <= i})]
             row == rowAt(rows, i) IN
         /\ r.dsa_code = trim(cellAt(row, c).s)
         /\ \A k \in 1..5 :
              /\ r.tier_history[YEARS[k]] = toNumCms(cellAt(row, c + k))
              /\ r.donation_rate_categories[YEARS[k]] = trimmedOrNull(cellAt(row, c + 5 + k))
              /\ r.transplant_rate_categories[YEARS[k]] = trimmedOrNull(cellAt(row, c + 10 + k))
    /\ later + 1 \in dataIdx
    /\ ret.opos[1].dsa_code = <<"A", "L", "O", "B">>
    /\ ret.opos[1].tier_history[2019] = toNumCms(args.tiers[1])
    /\ ret.opos[1].tier_history[2023] = toNumCms(args.tiers[5])
    /\ ret.opos[1].donation_rate_categories[2021] = Str(<<"D", "3">>)
    /\ ret.opos[1].transplant_rate_categories[2023] = Str(<<"T", "5">>)
    /\ args.h = 7 /\ args.g = 2 => cellAt(rowAt(rows, 10), c) = Str(<<" ", "A", "L", "O", "B", " ">>)

\* The sheet with the headers at rows 7 and 9 has been read from row 10 on:
\* the row between the headers is not a record, the rows after them are.
C16_Witness ==
  /\ SummaryDone
  /\ args.h = 7
  /\ args.g = 2
  /\ isCodeCell(cellAt(rowAt(summaryWorkbook(args)[2].rows, 8), args.c))
  /\ Len(ret.opos) = 2
  /\ ret.opos[1].dsa_code = <<"A", "L", "O", "B">>
  /\ ret.opos[2].dsa_code = <<"A", "Z", "O", "B">>
  /\ ret.opos[1].tier_history = [year \in Range(YEARS) |-> Num(2, 0)]

\* ------------------------------------------------------------------------
\* CMS QCOR: the single-year assessment sheet
\* ------------------------------------------------------------------------

\* The rank of a character of a sheet name in UTF-16 code unit order.
codeUnit ==
  LET order == <<" ", "&", "0", "1", "2", "3", "4", "5", "6", "7", "8", "9", "A", "B", "C", "D", "E", "F", "G", "H", "I", "J", "K", "L", "M", "N", "O", "P", "Q", "R", "S", "T", "U", "V", "W", "X", "Y", "Z", "a", "b", "c", "d", "e", "f", "g", "h", "i", "j", "k", "l", "m", "n", "o", "p", "q", "r", "s", "t", "u", "v", "w", "x", "y", "z">> IN
  [c \in Range(order) |-> CHOOSE i \in 1..Len(order) : order[i] = c]

RECURSIVE stringLess(_, _)
\* a < b for strings: code unit by code unit, a proper prefix is smaller.
stringLess(a, b) ==
  IF b = <<>> THEN FALSE
  ELSE IF a = <<>> THEN TRUE
  ELSE IF Head(a) /= Head(b) THEN codeUnit[Head(a)] < codeUnit[Head(b)]
  ELSE stringLess(Tail(a), Tail(b))

RECURSIVE insertString(_, _)
insertString(sorted, x) ==
  IF sorted = <<>> THEN <<x>>
  ELSE IF stringLess(x, Head(sorted)) THEN <<x>> \o sorted
  ELSE <<Head(sorted)>> \o insertString(Tail(sorted), x)

RECURSIVE sortStrings(_)
\* Array.prototype.sort() without a comparator, on strings.
sortStrings(names) ==
  IF names = <<>> THEN <<>>
  ELSE insertString(sortStrings(SubSeq(names, 1, Len(names) - 1)), names[Len(names)])

\* Array.prototype.reverse()
reverse(seq) == [k \in 1..Len(seq) |-> seq[Len(seq) + 1 - k]]

\* /\d{4}\s*assessment/i matches the name at position i.
assessmentAt(name, i) ==
  /\ i + 3 <= Len(name)
  /\ \A k \in i..(i + 3) : IsDigit(name[k])
  /\ \E w \in 0..Len(name) :
       /\ \A k \in (i + 4)..(i + 3 + w) : k <= Len(name) /\ name[k] = " "
       /\ occursAt(toLowerCase(name), <<"a", "s", "s", "e", "s", "s", "m", "e", "n", "t">>, i + 4 + w)

\* /\d{4}\s*assessment/i.test(n)
isAssessmentName(name) == \E i \in 1..Len(name) : assessmentAt(name, i)

\* The record stored for one data row of the assessment sheet.
assessmentRecord(row) ==
  [ donation_rate |-> toNumCms(cellAt(row, 2)),
    donation_rate_upper_ci |-> toNumCms(cellAt(row, 3)),
    donation_rate_category |-> trimmedOrNull(cellAt(row, 6)),
    expected_transplant_rate |-> toNumCms(cellAt(row, 7)),
    observed_transplant_rate |-> toNumCms(cellAt(row, 8)),
    age_adjusted_transplant_rate |-> toNumCms(cellAt(row, 9)),
    transplant_rate_upper_ci |-> toNumCms(cellAt(row, 10)),
    transplant_rate_category |-> trimmedOrNull(cellAt(row, 13)),
    tier_2019 |-> toNumCms(cellAt(row, 14)),
    tier_2020 |-> toNumCms(cellAt(row, 15)),
    tier_2021 |-> toNumCms(cellAt(row, 16)),
    tier_2022 |-> toNumCms(cellAt(row, 17)),
    tier_2023 |-> toNumCms(cellAt(row, 18)) ]

\* assessments[code.trim()] = {...} for every row with a code in column 1;
\* a later row of the same code replaces the earlier one.
assessmentsOf(rows) ==
  LET codeRows == {i \in 0..(Len(rows) - 1) : isCodeCell(cellAt(rowAt(rows, i), 1))}
      codes == {trim(cellAt(rowAt(rows, i), 1).s) : i \in codeRows} IN
  [code \in codes |->
     assessmentRecord(rowAt(rows,
       Greatest({i \in codeRows : trim(cellAt(rowAt(rows, i), 1).s) = code})))]

\* workbook: the sheets in SheetNames order, each with its name and rows.
parseAssessmentSheet(workbook) ==
  LET assessmentSheets ==
        reverse(sortStrings(SelectSeq([k \in DOMAIN workbook |-> workbook[k].name],
                                      isAssessmentName)))
      sheet == workbook[CHOOSE k \in DOMAIN workbook :
                          workbook[k].name = assessmentSheets[1]] IN
  IF Len(assessmentSheets) = 0 THEN <<>>
  ELSE assessmentsOf(sheet.rows)

\* A workbook with the given sheet names; the k-th sheet holds a header and
\* one OPO row whose donation rate is k, so that the record tells which sheet
\* it was read from.
assessmentWorkbook(names) ==
  [k \in DOMAIN names |->
     [ name |-> names[k],
       rows |-> << [j \in 1..19 |-> IF j = 2 THEN Str(<<"O", "P", "O", " ", "C", "o", "d", "e">>) ELSE JsNull],
                   [j \in 1..19 |->
                      IF j = 1 THEN Str(<<"L", "e", "g", "a", "c", "y", " ", "o", "f", " ", "H", "o", "p", "e">>)
                      ELSE IF j = 2 THEN Str(<<"A", "L", "O", "B">>)
                      ELSE IF j = 3 THEN Num(k, 0)
                      ELSE IF j \in {7, 14} THEN Str(<<" ", "T", "i", "e", "r", " ", "1", " ">>)
                      ELSE IF j >= 15 THEN Num(1, 0)
                      ELSE Num(j, 0)] >> ]]

ParseAssessmentSheet ==
  /\ args.fn = "parseAssessmentSheet"
  /\ ret = NoCall
  /\ ret' = [assessments |-> parseAssessmentSheet(assessmentWorkbook(args.names))]
  /\ UNCHANGED <<args, mergeVars, idVars, finVars, cliVars>>

\* Workbooks of up to MaxSheets sheets with distinct names, drawn from names
\* that match the assessment pattern in several spellings and names that do
\* not.
InitAssess ==
  /\ \E n \in 0..MaxSheets :
       \E names \in [1..n -> { <<"O", "P", "O", " ", "S", "u", "m", "m", "a", "r", "y">>, <<"2", "0", "2", "3", " ", "A", "s", "s", "e", "s", "s", "m", "e", "n", "t">>,
                               <<"2", "0", "2", "4", " ", "A", "s", "s", "e", "s", "s", "m", "e", "n", "t">>, <<"2", "0", "2", "5", " ", "a", "s", "s", "e", "s", "s", "m", "e", "n", "t">>,
                               <<"2", "0", "2", "5", "A", "s", "s", "e", "s", "s", "m", "e", "n", "t">>, <<"O", "P", "O", " ", "2", "0", "2", "4", " ", "A", "s", "s", "e", "s", "s", "m", "e", "n", "t">>,
                               <<"A", "s", "s", "e", "s", "s", "m", "e", "n", "t", " ", "2", "0", "2", "5">> }] :
         /\ \A i, j \in 1..n : i /= j => names[i] /= names[j]
         /\ args = [fn |-> "parseAssessmentSheet", names |-> names]
  /\ ret = NoCall
  /\ MergeIdle /\ IdIdle /\ FinIdle /\ CliIdle

SpecAssess == InitAssess /\ [][ParseAssessmentSheet]_vars

\* The year a matching sheet name encodes: the four digits of the match.
encodedYear(name) ==
  LET i == Least({k \in 1..Len(name) : assessmentAt(name, k)}) IN
  digitsValue(SubSeq(name, i, i + 3))

\* The sheets of the workbook whose names match the assessment pattern.
MatchingSheets == {k \in DOMAIN args.names : isAssessmentName(args.names[k])}

\* The result is what sheet k alone holds.
ReadFrom(k) ==
  /\ DOMAIN ret.assessments = {<<"A", "L", "O", "B">>}
  /\ ret.assessments[<<"A", "L", "O", "B">>] = assessmentRecord(assessmentWorkbook(args.names)[k].rows[2])
  /\ ret.assessments[<<"A", "L", "O", "B">>].donation_rate = Num(k, 0)

\* C17: the result is read from exactly one of the sheets whose names match
\* the assessment pattern, one whose name-encoded year is the greatest of
\* them; it is empty when no sheet name matches.
C17_LatestAssessmentYear ==
  ret /= NoCall =>
    IF MatchingSheets = {} THEN ret.assessments = <<>>
    ELSE \E k \in MatchingSheets :
           /\ ReadFrom(k)
           /\ \A m \in MatchingSheets :
                encodedYear(args.names[m]) <= encodedYear(args.names[k])

\* What the code does: the sheet read is the matching one whose whole name
\* is last in code-unit order.
C17_LexicographicallyLast ==
  ret /= NoCall =>
    IF MatchingSheets = {} THEN ret.assessments = <<>>
    ELSE \E k \in MatchingSheets :
           /\ ReadFrom(k)
           /\ \A m \in MatchingSheets :
                m /= k => stringLess(args.names[m], args.names[k])

\* A workbook whose matching names all start with the year was read from the
\* most recent one.
C17_Witness ==
  /\ ret /= NoCall
  /\ args.names = <<<<"2", "0", "2", "4", " ", "A", "s", "s", "e", "s", "s", "m", "e", "n", "t">>, <<"2", "0", "2", "5", " ", "a", "s", "s", "e", "s", "s", "m", "e", "n", "t">>, <<"2", "0", "2", "3", " ", "A", "s", "s", "e", "s", "s", "m", "e", "n", "t">>>>
  /\ ReadFrom(2)

\* ------------------------------------------------------------------------
\* Base directory: cms_status from the tier label
\* ------------------------------------------------------------------------

\* tierStr?.match(/^(\d)/), then parseInt(match[1], 10)
parseTier(tierStr) ==
  IF tierStr = JsNull \/ tierStr = JsUndefined THEN JsNull
  ELSE IF tierStr.s /= <<>> /\ IsDigit(Head(tierStr.s))
       THEN Num(digitValue(Head(tierStr.s)), 0)
  ELSE JsNull

parseAtRisk(tierStr) ==
  IF parseTier(tierStr) /= JsNull
  THEN [t |-> "boolean", b |-> parseTier(tierStr).mant >= 2]
  ELSE JsNull

\* The cms_status object transformOpo builds.
cmsStatusOf(tierStr) ==
  [ tier |-> parseTier(tierStr),
    cycle_year |-> Num(2023, 0),
    at_risk |-> parseAtRisk(tierStr) ]

TransformTier ==
  /\ args.fn = "cms_status"
  /\ ret = NoCall
  /\ ret' = [cms_status |-> cmsStatusOf(args.tier)]
  /\ UNCHANGED <<args, mergeVars, idVars, finVars, cliVars>>

\* raw.tier: a missing or null property, or a label text of up to
\* MaxCellLen characters.
InitTier ==
  /\ \E label \in {JsNull, JsUndefined, Str(<<"1", " ", "-", " ", "T", "o", "p">>), Str(<<"T", "i", "e", "r", " ", "2">>)}
                     \cup {Str(chars) :
                            chars \in UNION {[1..n -> {"0", "1", "2", "3", "4", "9", " ", "-", "T"}] :
                                               n \in 0..MaxCellLen}} :
       args = [fn |-> "cms_status", tier |-> label]
  /\ ret = NoCall
  /\ MergeIdle /\ IdIdle /\ FinIdle /\ CliIdle

SpecTier == InitTier /\ [][TransformTier]_vars

\* at_risk is null exactly when tier is null, and otherwise is (tier >= 2).
AtRiskDerived(status) ==
  /\ status.at_risk = JsNull <=> status.tier = JsNull
  /\ status.tier /= JsNull => status.at_risk = [t |-> "boolean", b |-> status.tier.mant >= 2]

\* C18: for any tier label, cms_status.tier is 1, 2, 3 or null, and
\* cms_status.at_risk is null exactly when tier is null and otherwise equals
\* (tier >= 2).
C18_TierDomain ==
  ret /= NoCall =>
    /\ ret.cms_status.tier \in {Num(1, 0), Num(2, 0), Num(3, 0), JsNull}
    /\ AtRiskDerived(ret.cms_status)

\* What the code ensures: tier is null or the label's leading digit, any of
\* 0..9, and at_risk is derived from it.
C18_TierIsLeadingDigit ==
  ret /= NoCall =>
    /\ ret.cms_status.tier \in {JsNull} \cup {Num(d, 0) : d \in 0..9}
    /\ AtRiskDerived(ret.cms_status)

\* ------------------------------------------------------------------------
\* Financial extractor (scrapers/propublica.js): scrape()
\* ------------------------------------------------------------------------

\* The curated EIN table, reduced to an OPO marked null and an OPO with an
\* EIN; every other code is not a key of the table.
EIN_MAP == [c \in {ALOB, AZOB} |-> IF c = ALOB THEN Null ELSE "860707697"]

\* EIN_MAP[opo.dsa_code]
staticEinOf(code) == IF code \in DOMAIN EIN_MAP THEN EIN_MAP[code] ELSE "undefined"

\* if (ein): null and undefined are falsy, an EIN is truthy.
truthyEin(ein) == ein /= Null /\ ein /= "undefined"

\* Variant: every OPO is handed to the name search.
needsSearch_always(code) == TRUE

\* The else branch of the static lookup: the OPO is pushed to needSearch.
needsSearch(code) == ~truthyEin(staticEinOf(code))

\* einMap[code]
einOf(map, code) == IF code \in DOMAIN map THEN map[code] ELSE "undefined"

\* einMap[code] = ein
setEin(map, code, ein) ==
  [c \in DOMAIN map \cup {code} |-> IF c = code THEN ein ELSE map[c]]

RECURSIVE staticEins(_)
\* The first loop of scrape(): einMap after the static lookups.
staticEins(opos) ==
  IF opos = <<>> THEN <<>>
  ELSE LET code == opos[Len(opos)].dsa_code
           before == staticEins(SubSeq(opos, 1, Len(opos) - 1)) IN
       IF needsSearch(code) THEN before ELSE setEin(before, code, staticEinOf(code))

RECURSIVE searchList(_)
\* The first loop of scrape(): needSearch.
searchList(opos) ==
  IF opos = <<>> THEN <<>>
  ELSE LET before == searchList(SubSeq(opos, 1, Len(opos) - 1)) IN
       IF needsSearch(opos[Len(opos)].dsa_code)
       THEN Append(before, opos[Len(opos)]) ELSE before

\* Base documents the extractor is run on: up to MaxBase OPOs, repeats
\* allowed, over a code marked null in the table, a code listed with an EIN
\* and a code not listed.
FinBaseDocs ==
  {Doc(s) : s \in UNION {[1..n -> {transformOpo(c, "filled") : c \in {ALOB, AZOB, ZZZZ}}] :
                           n \in 0..MaxBase}}

\* What searchEin resolves to: null, or the EIN of a search result.
SearchOutcomes == {Null, "131313131"}

\* What fetchOrg resolves to: null after a failed request, a record without
\* a filing, or a record with a filing.
FetchOutcomes == {"error", "nofiling", "full"}

\* The record pushed for an OPO whose filing was fetched.
finRecord(opo, ein, p) ==
  [propublicaRecord(opo.dsa_code, p) EXCEPT !.name = opo.name, !.ein = ein]

\* Variant: a record is pushed whenever the organization was fetched.
hasFiling_orgOnly(outcome) == outcome /= "error"

\* The negation of (!orgData || !orgData.filing).
hasFiling(outcome) == outcome = "full"

\* Variant: a failed fetch goes on to the next request at once.
linkAfter_failFast(kind, outcome) ==
  IF kind = "fetch" /\ outcome = "error" THEN "free" ELSE "pausing"

\* What follows the settling of a request: await sleep(DELAY), after
\* searchEin and after fetchOrg alike and before the result is examined.
linkAfter(kind, outcome) == "pausing"

\* A request handed to apiGet.  kind names the call site: "search" is the
\* searchEin call of scrape(), "fetch" its fetchOrg call, "discover" the
\* searchEin call of buildEinMap(); at is the position in the list looped
\* over.
request(kind, at, opo, q) ==
  [kind |-> kind, at |-> at, dsa_code |-> opo.dsa_code, q |-> q, outcome |-> "pending"]

\* scrape() up to the end of the static lookups; it throws without
\* opodata.json.
FinStart ==
  /\ finPc.stage = "idle"
  /\ IF raw["opodata"] = Absent
     THEN /\ finPc' = [stage |-> "failed", i |-> 0]
          /\ UNCHANGED <<einMap, needSearch>>
     ELSE /\ finPc' = [stage |-> "search", i |-> 1]
          /\ einMap' = staticEins(raw["opodata"].opos)
          /\ needSearch' = searchList(raw["opodata"].opos)
  /\ UNCHANGED <<results, requests, link, pauses, mergeVars, idVars, callVars, cliVars>>

\* The search loop of scrape() calls searchEin, which issues its request.
FinSearch ==
  /\ finPc.stage = "search"
  /\ link = "free"
  /\ finPc.i <= Len(needSearch)
  /\ LET opo == needSearch[finPc.i] IN
     requests' = Append(requests, request("search", finPc.i, opo, opo.name))
  /\ link' = "inflight"
  /\ UNCHANGED <<finPc, einMap, needSearch, results, pauses, mergeVars, idVars, callVars, cliVars>>

\* The search loop is over; the fetch loop begins.
FinSearchEnd ==
  /\ finPc.stage = "search"
  /\ link = "free"
  /\ finPc.i > Len(needSearch)
  /\ finPc' = [stage |-> "fetch", i |-> 1]
  /\ UNCHANGED <<einMap, needSearch, results, requests, link, pauses,
                 mergeVars, idVars, callVars, cliVars>>

\* The fetch loop of scrape(): an OPO without an EIN is skipped, for any
\* other fetchOrg issues its request.
FinFetch ==
  /\ finPc.stage = "fetch"
  /\ link = "free"
  /\ finPc.i <= Len(raw["opodata"].opos)
  /\ LET opo == raw["opodata"].opos[finPc.i]
         ein == einOf(einMap, opo.dsa_code) IN
     IF ~truthyEin(ein)
     THEN /\ finPc' = [stage |-> "fetch", i |-> finPc.i + 1]
          /\ UNCHANGED <<requests, link>>
     ELSE /\ requests' = Append(requests, request("fetch", finPc.i, opo, ein))
          /\ link' = "inflight"
          /\ UNCHANGED finPc
  /\ UNCHANGED <<einMap, needSearch, results, pauses, mergeVars, idVars, callVars, cliVars>>

\* buildEinMap() up to its loop; it throws without opodata.json.
FinDiscoverStart ==
  /\ finPc.stage = "idle"
  /\ finPc' = [ stage |-> IF raw["opodata"] = Absent THEN "failed" ELSE "discover",
                i |-> 1 ]
  /\ UNCHANGED <<einMap, needSearch, results, requests, link, pauses,
                 mergeVars, idVars, callVars, cliVars>>

\* The loop of buildEinMap() calls searchEin for every base OPO.
FinDiscover ==
  /\ finPc.stage = "discover"
  /\ link = "free"
  /\ finPc.i <= Len(raw["opodata"].opos)
  /\ LET opo == raw["opodata"].opos[finPc.i] IN
     requests' = Append(requests, request("discover", finPc.i, opo, opo.name))
  /\ link' = "inflight"
  /\ UNCHANGED <<finPc, einMap, needSearch, results, pauses, mergeVars, idVars, callVars, cliVars>>

\* apiGet settles and searchEin or fetchOrg returns: the search loop adopts
\* a truthy EIN, buildEinMap() stores whatever came back, the fetch loop
\* holds orgData; then sleep(DELAY) is called.
FinResponse ==
  /\ link = "inflight"
  /\ LET req == requests[Len(requests)] IN
     \E outcome \in IF req.kind = "fetch" THEN FetchOutcomes ELSE SearchOutcomes :
       /\ requests' = [requests EXCEPT ![Len(requests)].outcome = outcome]
       /\ einMap' = IF req.kind = "search" /\ truthyEin(outcome)
                    THEN setEin(einMap, req.dsa_code, outcome) ELSE einMap
       /\ results' = IF req.kind = "discover"
                     THEN setEin(results, req.dsa_code, outcome) ELSE results
       /\ link' = linkAfter(req.kind, outcome)
  /\ UNCHANGED <<finPc, needSearch, pauses, mergeVars, idVars, callVars, cliVars>>

\* sleep(DELAY) resolves; the fetch loop then pushes a record when a filing
\* came back; the loop moves on.
FinPauseEnd ==
  /\ link = "pausing"
  /\ link' = "free"
  /\ pauses' = pauses + 1
  /\ finPc' = [finPc EXCEPT !.i = finPc.i + 1]
  /\ LET req == requests[Len(requests)] IN
     results' = IF req.kind = "fetch" /\ hasFiling(req.outcome)
                THEN Append(results,
                            finRecord(raw["opodata"].opos[req.at], req.q, req.outcome))
                ELSE results
  /\ UNCHANGED <<einMap, needSearch, requests, mergeVars, idVars, callVars, cliVars>>

\* The fetch loop is over: propublica.json is written.
FinWrite ==
  /\ finPc.stage = "fetch"
  /\ link = "free"
  /\ finPc.i > Len(raw["opodata"].opos)
  /\ raw' = [raw EXCEPT !["propublica"] = Doc(results)]
  /\ finPc' = [stage |-> "done", i |-> 0]
  /\ UNCHANGED <<out, err, pc, einMap, needSearch, results, requests, link, pauses,
                 idVars, callVars, cliVars>>

\* The loop of buildEinMap() is over: ein-discoveries.json is written.
FinDiscoverWrite ==
  /\ finPc.stage = "discover"
  /\ link = "free"
  /\ finPc.i > Len(raw["opodata"].opos)
  /\ raw' = [s \in DOMAIN raw \cup {"ein-discoveries"} |->
               IF s = "ein-discoveries" THEN results ELSE raw[s]]
  /\ finPc' = [stage |-> "discovered", i |-> 0]
  /\ UNCHANGED <<out, err, pc, einMap, needSearch, results, requests, link, pauses,
                 idVars, callVars, cliVars>>

\* data/raw holds opodata.json or nothing; the merge is not running.
InitFin ==
  /\ \E d \in FinBaseDocs \cup {Absent} :
       raw = [s \in Sources |-> IF s = "opodata" THEN d ELSE Absent]
  /\ out = NoOutput
  /\ err = FALSE
  /\ pc = "financial"
  /\ IdIdle /\ CallIdle /\ FinIdle /\ CliIdle

NextFin ==
  \/ FinStart \/ FinSearch \/ FinSearchEnd \/ FinFetch
  \/ FinResponse \/ FinPauseEnd \/ FinWrite

SpecFin == InitFin /\ [][NextFin]_vars

\* The static table has been consulted for every base OPO.
Resolved == finPc.stage \in {"search", "fetch", "done"}

\* C19: no request is issued before the static table has been consulted for
\* every base OPO; a name search is issued only for a base OPO for which the
\* table yields no EIN; and an EIN the table yields stays the OPO's EIN
\* whatever the searches return.
C19_StaticTableFirst ==
  /\ ~Resolved => requests = <<>>
  /\ Resolved =>
       \A o \in Range(raw["opodata"].opos) :
         /\ truthyEin(staticEinOf(o.dsa_code)) =>
              einOf(einMap, o.dsa_code) = staticEinOf(o.dsa_code)
         /\ truthyEin(staticEinOf(o.dsa_code)) => o \notin Range(needSearch)
         /\ ~truthyEin(staticEinOf(o.dsa_code)) => o \in Range(needSearch)
  /\ \A k \in DOMAIN requests :
       requests[k].kind = "search" =>
         /\ ~truthyEin(staticEinOf(requests[k].dsa_code))
         /\ \E o \in Range(raw["opodata"].opos) : o.dsa_code = requests[k].dsa_code

\* An OPO outside the table was searched and its result adopted, while the
\* OPO with a static EIN kept it and was never searched.
C19_Witness ==
  /\ finPc.stage = "done"
  /\ \E k \in DOMAIN requests :
       requests[k].kind = "search" /\ requests[k].dsa_code = ZZZZ
  /\ einOf(einMap, ZZZZ) = "131313131"
  /\ einOf(einMap, AZOB) = "860707697"
  /\ \E k \in DOMAIN requests :
       requests[k].kind = "fetch" /\ requests[k].dsa_code = AZOB

\* The fetch requests whose filing has been examined: every settled fetch
\* but the one whose sleep is still running.
Examined ==
  SelectSeq(requests,
            LAMBDA r : /\ r.kind = "fetch"
                       /\ r.outcome /= "pending"
                       /\ (link = "free" \/ r /= requests[Len(requests)]))

\* The examined fetches that brought a filing back.
Fetched == SelectSeq(Examined, LAMBDA r : r.outcome = "full")

\* The examined fetches that failed or brought no filing back.
Unfetched == SelectSeq(Examined, LAMBDA r : r.outcome \in {"error", "nofiling"})

\* Every record has a dsa_code of the base directory, a non-null EIN and the
\* filing of a fetch for that code and EIN that succeeded.
RecordsAreFetched ==
  \A k \in DOMAIN results :
    /\ \E o \in Range(raw["opodata"].opos) : o.dsa_code = results[k].dsa_code
    /\ truthyEin(results[k].ein)
    /\ \E r \in Range(Fetched) :
         /\ r.dsa_code = results[k].dsa_code
         /\ r.q = results[k].ein
         /\ results[k] = finRecord(raw["opodata"].opos[r.at], r.q, "full")

\* propublica.json holds the records pushed.
OutputIsResults == finPc.stage = "done" => raw["propublica"] = Doc(results)

\* C21 as stated: every output record has a base dsa_code, a non-null EIN
\* and successfully fetched filing data; a dsa_code whose fetch failed or
\* brought no filing is absent from the output; and no dsa_code occurs twice.
C21_OutputRecords ==
  /\ RecordsAreFetched
  /\ OutputIsResults
  /\ \A r \in Range(Unfetched) :
       \A k \in DOMAIN results : results[k].dsa_code /= r.dsa_code
  /\ PairwiseDistinct(results)

\* C21: every output record has a base dsa_code, a non-null EIN and
\* successfully fetched filing data; the output holds, in base order, exactly
\* one record per base record whose fetch brought a filing back, and none for
\* a base record whose fetch failed or brought no filing; so a dsa_code occurs
\* in the output at most as often as in the base directory.
C21_OneRecordPerFetchedBaseRecord ==
  /\ RecordsAreFetched
  /\ OutputIsResults
  /\ results = [k \in DOMAIN Fetched |->
                  finRecord(raw["opodata"].opos[Fetched[k].at], Fetched[k].q, "full")]
  /\ \A j, k \in DOMAIN Examined : j < k => Examined[j].at < Examined[k].at
  /\ \A code \in CodesOf(results) :
       CountCode(results, code) <= CountCode(raw["opodata"].opos, code)

\* The extractor has finished with a record for the OPO of the table and
\* none for the OPO found by search, whose fetch brought no filing.
C21_Witness ==
  /\ finPc.stage = "done"
  /\ \E r \in Range(Unfetched) : r.dsa_code = ZZZZ /\ r.outcome = "nofiling"
  /\ \E k \in DOMAIN results : results[k].dsa_code = AZOB
  /\ \A k \in DOMAIN results : results[k].dsa_code /= ZZZZ

\* The base OPOs the curated table marks null.
MarkedNull ==
  IF raw["opodata"] = Absent THEN {}
  ELSE {o \in Range(raw["opodata"].opos) : staticEinOf(o.dsa_code) = Null}

\* C27 as stated: an OPO whose entry in the curated table is null is never
\* assigned an EIN: no search result is adopted for it, the extractor emits
\* no record for it, and its merged ein is null.
C27_NullEntryNeverAssigned ==
  \A o \in MarkedNull :
    /\ ~truthyEin(einOf(einMap, o.dsa_code))
    /\ \A k \in DOMAIN results : results[k].dsa_code /= o.dsa_code
    /\ finPc.stage = "done" =>
         \A r \in Range(normalizeOutput(raw).opos) :
           r.dsa_code = o.dsa_code => r.ein = Null

\* What the code ensures: an OPO the table marks null is handed to the name
\* search, and has an EIN exactly when a search for it returned one.
C27_NullEntrySearched ==
  \A o \in MarkedNull :
    /\ Resolved => o \in Range(needSearch)
    /\ truthyEin(einOf(einMap, o.dsa_code)) <=>
         \E k \in DOMAIN requests :
           /\ requests[k].kind = "search"
           /\ requests[k].dsa_code = o.dsa_code
           /\ truthyEin(requests[k].outcome)
           /\ requests[k].outcome /= "pending"

\* Either entry point of the module: scrape() or buildEinMap().
NextPace == NextFin \/ FinDiscoverStart \/ FinDiscover \/ FinDiscoverWrite

SpecPace == InitFin /\ [][NextPace]_vars

\* C22: requests are issued one at a time and a completed pause separates
\* any two consecutive requests: only the latest request can be in flight;
\* while it is in flight or its pause is running, exactly the requests before
\* it have each been followed by a completed pause, whatever their outcome;
\* and once its pause has ended, every request has.
C22_OneAtATimeWithPause ==
  /\ \A k \in DOMAIN requests :
       requests[k].outcome = "pending" => k = Len(requests) /\ link = "inflight"
  /\ link = "inflight" => requests[Len(requests)].outcome = "pending"
  /\ pauses = IF link = "free" THEN Len(requests) ELSE Len(requests) - 1

\* A request is in flight after an earlier request that failed, and the
\* pause after the failed request has completed.
C22_Witness ==
  /\ link = "inflight"
  /\ Len(requests) >= 2
  /\ requests[Len(requests) - 1].outcome \in {"error", Null}
  /\ pauses = Len(requests) - 1

\* ------------------------------------------------------------------------
\* Financial extractor: searchEin
\* ------------------------------------------------------------------------

IsAlphaNum(c) == c \in Range(LowerChars) \/ IsDigit(c)

\* s.toLowerCase().replace(/[^a-z0-9]/g, '')
normalizeName(chars) == SelectSeq(toLowerCase(chars), IsAlphaNum)

\* Variant: the secondary name of a candidate is not looked at.
acceptsOrg_nameOnly(nameNorm, org) ==
  LET orgName == normalizeName(IF truthy(org.name) THEN org.name.s ELSE <<>>) IN
  includes(orgName, nameNorm) \/ includes(nameNorm, orgName)

\* The test of the candidate loop, on (org.name || '') and
\* (org.sub_name || '').
acceptsOrg(nameNorm, org) ==
  LET orgName == normalizeName(IF truthy(org.name) THEN org.name.s ELSE <<>>)
      subName == normalizeName(IF truthy(org.sub_name) THEN org.sub_name.s ELSE <<>>) IN
  includes(orgName, nameNorm) \/ includes(subName, nameNorm) \/ includes(nameNorm, orgName)

\* searchEin(opoName) for the response the search request gets; a failed
\* request is caught and yields null.
searchEin(opoName, response) ==
  IF ~response.ok THEN Null
  ELSE IF Len(response.organizations) = 0 THEN Null
  ELSE
    LET accepted == {k \in DOMAIN response.organizations :
                       acceptsOrg(normalizeName(opoName), response.organizations[k])} IN
    IF accepted /= {} THEN response.organizations[Least(accepted)].ein
    ELSE response.organizations[1].ein

\* The EIN of the k-th search result.
ResultEins == <<"111111111", "222222222", "333333333", "444444444">>

\* Search results of n candidates, each with its own EIN.  Names: containing
\* the first query, contained in it, unrelated, containing the second query,
\* missing; secondary names: missing, the first query, unrelated.
ResultLists(n) ==
  { [k \in 1..n |-> [name |-> names[k], sub_name |-> subs[k], ein |-> ResultEins[k]]] :
      names \in [1..n -> { Str(<<"H", "O", "P", "E", "-", "N", "E", "T", " ", "I", "n", "c", ".">>), Str(<<"H", "o", "p", "e">>), Str(<<"D", "o", "n", "o", "r", " ", "B", "a", "n", "k">>),
                           Str(<<"L", "i", "f", "e", "l", "i", "n", "k", " ", "F", "o", "u", "n", "d", "a", "t", "i", "o", "n">>), JsNull }],
      subs \in [1..n -> {JsNull, Str(<<"H", "o", "p", "e", " ", "N", "e", "t">>), Str(<<"R", "e", "c", "o", "v", "e", "r", "y">>)}] }

SearchEin ==
  /\ args.fn = "searchEin"
  /\ ret = NoCall
  /\ ret' = [ein |-> searchEin(args.opoName, args.response)]
  /\ UNCHANGED <<args, mergeVars, idVars, finVars, cliVars>>

\* A query name and the response to its request: failed, or a list of up to
\* MaxOrgs candidates.
InitSearch ==
  /\ \E opoName \in {<<"H", "o", "p", "e", " ", "N", "e", "t">>, <<"L", "i", "f", "e", "L", "i", "n", "k">>}, ok \in BOOLEAN, n \in 0..MaxOrgs :
       \E orgs \in ResultLists(n) :
         /\ ~ok => n = 0
         /\ args = [ fn |-> "searchEin",
                     opoName |-> opoName,
                     response |-> [ok |-> ok, organizations |-> orgs] ]
  /\ ret = NoCall
  /\ MergeIdle /\ IdIdle /\ FinIdle /\ CliIdle

SpecSearch == InitSearch /\ [][SearchEin]_vars

\* The candidates of the response whose normalized name is a substring of
\* the normalized query or contains it.
NameMatches ==
  {k \in DOMAIN args.response.organizations :
     LET org == args.response.organizations[k]
         orgName == normalizeName(IF truthy(org.name) THEN org.name.s ELSE <<>>) IN
     \/ includes(normalizeName(args.opoName), orgName)
     \/ includes(orgName, normalizeName(args.opoName))}

\* The candidates whose normalized secondary name contains the query.
SubNameMatches ==
  {k \in DOMAIN args.response.organizations :
     LET org == args.response.organizations[k] IN
     includes(normalizeName(IF truthy(org.sub_name) THEN org.sub_name.s ELSE <<>>),
              normalizeName(args.opoName))}

\* The search has returned for a response that lists candidates.
SearchedSome ==
  ret /= NoCall /\ args.response.ok /\ Len(args.response.organizations) > 0

\* The search has returned for a failed request or an empty result list.
SearchedNone ==
  ret /= NoCall /\ (~args.response.ok \/ Len(args.response.organizations) = 0)

\* C20 as stated: the EIN returned is that of the first candidate whose
\* normalized name is a substring of or contains the normalized query; with
\* no such candidate it is the first result's EIN; it is null for an empty
\* list or a failed request.
C20_FirstNameMatch ==
  /\ SearchedNone => ret.ein = Null
  /\ SearchedSome =>
       ret.ein = IF NameMatches /= {}
                 THEN args.response.organizations[Least(NameMatches)].ein
                 ELSE args.response.organizations[1].ein

\* C20 as the code has it: a candidate is also accepted when its normalized
\* secondary name (sub_name) contains the normalized query, so the EIN is
\* that of the first candidate accepted by name or by secondary name.
C20_FirstNameOrSubNameMatch ==
  /\ SearchedNone => ret.ein = Null
  /\ SearchedSome =>
       ret.ein = IF NameMatches \cup SubNameMatches /= {}
                 THEN args.response.organizations[Least(NameMatches \cup SubNameMatches)].ein
                 ELSE args.response.organizations[1].ein

\* The first candidate matched by its secondary name only and the second by
\* its name: the first one's EIN was returned.
C20_Witness ==
  /\ SearchedSome
  /\ Len(args.response.organizations) >= 2
  /\ NameMatches = {2}
  /\ 1 \in SubNameMatches
  /\ ret.ein = ResultEins[1]

\* No candidate matched: the first result's EIN was returned.
C20_WitnessFallback ==
  /\ SearchedSome
  /\ Len(args.response.organizations) >= 2
  /\ NameMatches \cup SubNameMatches = {}
  /\ ret.ein = ResultEins[1]

\* ------------------------------------------------------------------------
\* Command line (src/index.js)
\* ------------------------------------------------------------------------

\* SCRAPERS: the source names with a loader, each with the raw document its
\* scraper writes.
SCRAPERS ==
  [ name \in { <<"o", "p", "o", "d", "a", "t", "a">>, <<"p", "r", "o", "p", "u", "b", "l", "i", "c", "a">>, <<"h", "r", "s", "a">>, <<"s", "r", "t", "r">>, <<"c", "m", "s", "-", "q", "c", "o", "r">> } |->
      IF name = <<"o", "p", "o", "d", "a", "t", "a">> THEN "opodata"
      ELSE IF name = <<"p", "r", "o", "p", "u", "b", "l", "i", "c", "a">> THEN "propublica"
      ELSE IF name = <<"h", "r", "s", "a">> THEN "hrsa"
      ELSE IF name = <<"s", "r", "t", "r">> THEN "srtr"
      ELSE "cms-qcor" ]

\* arg.split('=')[1]: the text between the first and the second '='.
splitEquals1(arg) ==
  LET eqs == {k \in 1..Len(arg) : arg[k] = "="}
      first == Least(eqs)
      stop == IF eqs = {first} THEN Len(arg) + 1 ELSE Least(eqs \ {first}) IN
  SubSeq(arg, first + 1, stop - 1)

RECURSIVE parseLoop(_)
\* The loop of parseArgs over argv.slice(2).
parseLoop(list) ==
  IF list = <<>> THEN [sources |-> <<>>, skip |-> <<>>, normalizeOnly |-> FALSE]
  ELSE LET arg == list[Len(list)]
           before == parseLoop(SubSeq(list, 1, Len(list) - 1)) IN
       IF arg = <<"-", "-", "n", "o", "r", "m", "a", "l", "i", "z", "e", "-", "o", "n", "l", "y">> THEN [before EXCEPT !.normalizeOnly = TRUE]
       ELSE IF occursAt(arg, <<"-", "-", "s", "o", "u", "r", "c", "e", "=">>, 1)
       THEN [before EXCEPT !.sources = Append(@, splitEquals1(arg))]
       ELSE IF occursAt(arg, <<"-", "-", "s", "k", "i", "p", "-">>, 1)
       THEN [before EXCEPT !.skip = Append(@, SubSeq(arg, Len(<<"-", "-", "s", "k", "i", "p", "-">>) + 1, Len(arg)))]
       ELSE before

\* parseArgs(argv), argv given without its first two elements.
parseArgs(list) ==
  LET parsed == parseLoop(list) IN
  IF parsed.sources = <<>> /\ ~parsed.normalizeOnly
  THEN [parsed EXCEPT !.sources = << <<"o", "p", "o", "d", "a", "t", "a">>, <<"p", "r", "o", "p", "u", "b", "l", "i", "c", "a">>, <<"h", "r", "s", "a">> >>]
  ELSE parsed

\* Variant: the skip list is not applied.
sourcesToRun_noSkip(parsed) == parsed.sources

\* args.sources.filter(s => !args.skip.includes(s))
sourcesToRun(parsed) ==
  SelectSeq(parsed.sources, LAMBDA s : \A k \in DOMAIN parsed.skip : parsed.skip[k] /= s)

\* The document a scraper writes when it completes.
scraperDoc(source) ==
  IF source = "opodata" THEN Doc(<<transformOpo(ALOB, "filled")>>)
  ELSE IF source = "propublica" THEN Doc(<<propublicaRecord(ALOB, "full")>>)
  ELSE IF source = "hrsa" THEN Doc(<<hrsaRecord(ALOB, "full")>>)
  ELSE IF source = "srtr" THEN Doc(<<srtrRecord(ALOB, "full")>>)
  ELSE Doc(<<cmsRecord(ALOB, "full")>>)

\* main() up to the loop over the sources.
CliParse ==
  /\ cliPc.stage = "start"
  /\ cliArgs' = parseArgs(args.argv)
  /\ cliPc' = IF parseArgs(args.argv).normalizeOnly
              THEN [stage |-> "normalize", i |-> 0]
              ELSE [stage |-> "loop", i |-> 1]
  /\ UNCHANGED <<cliLog, mergeVars, idVars, callVars, finVars>>

\* One iteration of the loop: an unknown source is reported and passed
\* over; a scraper either completes, leaving its raw document, or throws,
\* which is caught and reported.  The financial scraper throws without
\* opodata.json.
CliScraper ==
  /\ cliPc.stage = "loop"
  /\ cliPc.i <= Len(sourcesToRun(cliArgs))
  /\ LET source == sourcesToRun(cliArgs)[cliPc.i] IN
     IF source \notin DOMAIN SCRAPERS
     THEN /\ cliLog' = Append(cliLog, [ev |-> "unknown", source |-> source, ok |-> FALSE])
          /\ UNCHANGED raw
     ELSE \E ok \in BOOLEAN :
            /\ (SCRAPERS[source] = "propublica" /\ raw["opodata"] = Absent) => ~ok
            /\ cliLog' = Append(cliLog, [ev |-> "scraper", source |-> source, ok |-> ok])
            /\ raw' = IF ok THEN [raw EXCEPT ![SCRAPERS[source]] = scraperDoc(SCRAPERS[source])]
                      ELSE raw
  /\ cliPc' = [cliPc EXCEPT !.i = cliPc.i + 1]
  /\ UNCHANGED <<out, err, pc, cliArgs, idVars, callVars, finVars>>

\* After the loop, or at once under --normalize-only: normalize.run(),
\* whose exception is caught and reported.
CliNormalize ==
  /\ \/ cliPc.stage = "normalize"
     \/ cliPc.stage = "loop" /\ cliPc.i > Len(sourcesToRun(cliArgs))
  /\ IF raw["opodata"] = Absent
     THEN err' = TRUE /\ out' = out
     ELSE err' = err /\ out' = normalizeOutput(raw)
  /\ cliLog' = Append(cliLog, [ev |-> "normalize", source |-> <<>>,
                               ok |-> raw["opodata"] /= Absent])
  /\ cliPc' = [stage |-> "done", i |-> 0]
  /\ UNCHANGED <<raw, pc, cliArgs, idVars, callVars, finVars>>

\* node src/index.js with up to MaxArgs arguments, on a fresh checkout or
\* with an opodata.json left by an earlier run.
InitCli ==
  /\ \E n \in 0..MaxArgs :
       \E argv \in [1..n -> { <<"-", "-", "n", "o", "r", "m", "a", "l", "i", "z", "e", "-", "o", "n", "l", "y">>, <<"-", "-", "s", "o", "u", "r", "c", "e", "=", "o", "p", "o", "d", "a", "t", "a">>,
                              <<"-", "-", "s", "o", "u", "r", "c", "e", "=", "p", "r", "o", "p", "u", "b", "l", "i", "c", "a">>, <<"-", "-", "s", "o", "u", "r", "c", "e", "=", "s", "r", "t", "r">>,
                              <<"-", "-", "s", "o", "u", "r", "c", "e", "=", "b", "o", "g", "u", "s">>, <<"-", "-", "s", "k", "i", "p", "-", "p", "r", "o", "p", "u", "b", "l", "i", "c", "a">>,
                              <<"-", "-", "s", "k", "i", "p", "-", "h", "r", "s", "a">>, <<"-", "-", "v", "e", "r", "b", "o", "s", "e">> }] :
         args = [fn |-> "main", argv |-> argv]
  /\ ret = NoCall
  /\ \E d \in {Absent, Doc(<<transformOpo(AZOB, "filled")>>)} :
       raw = [s \in Sources |-> IF s = "opodata" THEN d ELSE Absent]
  /\ out = NoOutput
  /\ err = FALSE
  /\ pc = "cli"
  /\ cliPc = [stage |-> "start", i |-> 0]
  /\ cliArgs = <<>>
  /\ cliLog = <<>>
  /\ IdIdle /\ FinIdle

NextCli == CliParse \/ CliScraper \/ CliNormalize

SpecCli == InitCli /\ [][NextCli]_vars

\* The sources whose scraper has been run (started), in order.
ScrapersRun ==
  LET runs == SelectSeq(cliLog, LAMBDA e : e.ev = "scraper") IN
  [k \in DOMAIN runs |-> runs[k].source]

\* main() has run to its end.
CliDone == cliPc.stage = "done"

\* Normalization has been attempted exactly once, as the last thing done.
NormalizedOnceAtEnd ==
  /\ cliLog /= <<>>
  /\ \A k \in DOMAIN cliLog : cliLog[k].ev = "normalize" <=> k = Len(cliLog)

\* C23 as stated: invoked with no arguments, the CLI runs all five scrapers
\* and then runs normalization.
C23_NoArgumentsRunsAllFive ==
  (CliDone /\ args.argv = <<>>) =>
    /\ Range(ScrapersRun) = DOMAIN SCRAPERS
    /\ NormalizedOnceAtEnd

\* What the code does: invoked with no arguments, the CLI runs the opodata,
\* propublica and hrsa scrapers, in this order, and then normalization.
C23_NoArgumentsRunsThree ==
  (CliDone /\ args.argv = <<>>) =>
    /\ ScrapersRun = << <<"o", "p", "o", "d", "a", "t", "a">>, <<"p", "r", "o", "p", "u", "b", "l", "i", "c", "a">>, <<"h", "r", "s", "a">> >>
    /\ NormalizedOnceAtEnd

\* The sources selected on the command line and not skipped, in the order
\* selected; none under --normalize-only.
Selected ==
  IF cliArgs.normalizeOnly THEN <<>>
  ELSE SelectSeq(cliArgs.sources, LAMBDA s : s \notin Range(cliArgs.skip))

\* What main() has done before normalization, in order.
LoopSteps == SelectSeq(cliLog, LAMBDA e : e.ev /= "normalize")

\* C25: the selected sources are gone through one after the other in the
\* order selected, each known one having its scraper run and each unknown one
\* being passed over, whether or not an earlier scraper threw; normalization
\* is attempted exactly once, after the last of them, and without any scraper
\* run under --normalize-only; the scraper of a source named by a --skip-
\* argument is never run.
C25_PipelineResilience ==
  /\ \A k \in DOMAIN cliLog :
       cliLog[k].ev = "normalize" => k = Len(cliLog) /\ CliDone
  /\ CliDone => NormalizedOnceAtEnd
  /\ cliPc.stage /= "start" =>
       /\ Len(LoopSteps) <= Len(Selected)
       /\ CliDone => Len(LoopSteps) = Len(Selected)
       /\ \A k \in DOMAIN LoopSteps :
            /\ LoopSteps[k].source = Selected[k]
            /\ LoopSteps[k].ev = "scraper" <=> Selected[k] \in DOMAIN SCRAPERS
       /\ (<<"-", "-", "n", "o", "r", "m", "a", "l", "i", "z", "e", "-", "o", "n", "l", "y">> \in Range(args.argv)) => LoopSteps = <<>>
  /\ \A name \in Range(ScrapersRun) :
       (<<"-", "-", "s", "k", "i", "p", "-">> \o name) \notin Range(args.argv)

\* An unknown source was passed over, then a scraper threw, then another
\* scraper completed, and normalization followed.
C25_Witness ==
  /\ CliDone
  /\ \E i, j, k \in DOMAIN cliLog :
       /\ i < j /\ j < k
       /\ cliLog[i].ev = "unknown"
       /\ cliLog[j].ev = "scraper" /\ ~cliLog[j].ok
       /\ cliLog[k].ev = "scraper" /\ cliLog[k].ok
  /\ cliLog[Len(cliLog)].ev = "normalize"

\* ------------------------------------------------------------------------
\* HRSA extractor (scrapers/hrsa.js): grouping of the spreadsheet rows
\* ------------------------------------------------------------------------

\* PROVIDER_TO_DSA, reduced to two providers; any other number is unmapped.
PROVIDER_TO_DSA ==
  [key \in { <<"0", "1", "P", "0", "0", "1">>, <<"0", "3", "P", "0", "0", "1">> } |-> IF key = <<"0", "1", "P", "0", "0", "1">> THEN ALOB ELSE AZOB]

\* (cell || '').trim()
trimmedOrEmpty(cell) == IF truthy(cell) THEN trim(JsString(cell)) ELSE <<>>

\* Variant: a row whose center is already listed replaces its services.
addCenter_overwrite(centers, row) ==
  LET otcName == trimmedOrEmpty(row.otcName)
      otcCode == trimmedOrEmpty(row.otcCode)
      serviceType == trimmedOrEmpty(row.service)
      found == {k \in DOMAIN centers : centers[k].code = otcCode} IN
  IF otcName = <<>> THEN centers
  ELSE IF found /= {}
  THEN [centers EXCEPT ![Least(found)].services = <<serviceType>>]
  ELSE Append(centers, [ name |-> otcName, code |-> otcCode,
                         city |-> trimmedOrEmpty(row.city),
                         services |-> IF serviceType /= <<>> THEN <<serviceType>> ELSE <<>> ])

\* transplant_centers of the row's group after the row: a row without an OTC
\* name changes nothing; a row whose code is listed adds its service type to
\* the first entry with that code unless it is empty or listed there; any
\* other row appends an entry.
addCenter(centers, row) ==
  LET otcName == trimmedOrEmpty(row.otcName)
      otcCode == trimmedOrEmpty(row.otcCode)
      serviceType == trimmedOrEmpty(row.service)
      found == {k \in DOMAIN centers : centers[k].code = otcCode} IN
  IF otcName = <<>> THEN centers
  ELSE IF found /= {}
  THEN IF serviceType /= <<>> /\ serviceType \notin Range(centers[Least(found)].services)
       THEN [centers EXCEPT ![Least(found)].services = Append(@, serviceType)]
       ELSE centers
  ELSE Append(centers, [ name |-> otcName, code |-> otcCode,
                         city |-> trimmedOrEmpty(row.city),
                         services |-> IF serviceType /= <<>> THEN <<serviceType>> ELSE <<>> ])

RECURSIVE groupRows(_)
\* opoGroups after the loop over the rows, as the list of its values in
\* insertion order (the order of Object.entries).
groupRows(rows) ==
  IF rows = <<>> THEN <<>>
  ELSE LET row == rows[Len(rows)]
           groups == groupRows(SubSeq(rows, 1, Len(rows) - 1))
           key == trim(JsString(row.provider))
           at == {g \in DOMAIN groups : groups[g].provider_number = key}
           opened == IF at /= {} THEN groups
                     ELSE Append(groups, [ provider_number |-> key,
                                           name |-> trimmedOrEmpty(row.opoName),
                                           city |-> trimmedOrEmpty(row.city),
                                           transplant_centers |-> <<>> ])
           g == CHOOSE g \in DOMAIN opened : opened[g].provider_number = key IN
       IF ~truthy(row.provider) THEN groups
       ELSE [opened EXCEPT ![g].transplant_centers = addCenter(@, row)]

\* opos: the groups with a DSA code, sorted by it.
hrsaOpos(rows) ==
  LET mapped == SelectSeq(groupRows(rows),
                          LAMBDA g : g.provider_number \in DOMAIN PROVIDER_TO_DSA) IN
  sortByDsa([k \in DOMAIN mapped |->
               [ dsa_code |-> PROVIDER_TO_DSA[mapped[k].provider_number],
                 name |-> Str(mapped[k].name),
                 provider_number |-> mapped[k].provider_number,
                 city |-> IF mapped[k].city /= <<>> THEN Str(mapped[k].city) ELSE JsNull,
                 transplant_centers |-> mapped[k].transplant_centers ]])

ScrapeHrsaRows ==
  /\ args.fn = "hrsa"
  /\ ret = NoCall
  /\ ret' = [opos |-> hrsaOpos(args.rows)]
  /\ UNCHANGED <<args, mergeVars, idVars, finVars, cliVars>>

\* Sheets of up to MaxRows rows.  A row belongs to the first provider, to a
\* second provider, or has no provider number; rows of the first provider
\* vary in OTC name (present or missing), OTC code (two codes, one also with
\* trailing white space) and service type (missing or one of two).
InitHrsa ==
  /\ \E n \in 0..MaxRows :
       \E rows \in [1..n ->
            { [ provider |-> Str(<<"0", "1", "P", "0", "0", "1">>), opoName |-> Str(<<"L", "e", "g", "a", "c", "y", " ", "o", "f", " ", "H", "o", "p", "e">>),
                city |-> Str(<<"M", "o", "b", "i", "l", "e", " ">>), otcName |-> nc[1], otcCode |-> nc[2],
                service |-> s ] :
                nc \in { <<JsUndefined, Str(<<"A", "L", "U", "A">>)>>, <<Str(<<"U", "A", "B">>), Str(<<"A", "L", "U", "A">>)>>,
                         <<Str(<<"U", "A", "B", " ", "H", "o", "s", "p", "i", "t", "a", "l">>), Str(<<"A", "L", "U", "A", " ">>)>>,
                         <<Str(<<"C", "h", "i", "l", "d", "r", "e", "n", "s">>), Str(<<"A", "L", "C", "H">>)>> },
                s \in {JsUndefined, Str(<<"K", "i", "d", "n", "e", "y">>), Str(<<"L", "i", "v", "e", "r">>)} }
            \cup { [ provider |-> p, opoName |-> Str(<<"D", "o", "n", "o", "r", " ", "N", "e", "t", "w", "o", "r", "k">>),
                     city |-> Str(<<"P", "h", "o", "e", "n", "i", "x">>), otcName |-> Str(<<"U", "A", "B">>),
                     otcCode |-> Str(<<"A", "L", "U", "A">>), service |-> Str(<<"K", "i", "d", "n", "e", "y">>) ] :
                     p \in {Str(<<" ", "0", "3", "P", "0", "0", "1">>), JsUndefined} }] :
         args = [fn |-> "hrsa", rows |-> rows]
  /\ ret = NoCall
  /\ MergeIdle /\ IdIdle /\ FinIdle /\ CliIdle

SpecHrsa == InitHrsa /\ [][ScrapeHrsaRows]_vars

\* The rows of a provider, in sheet order.
RowsOf(key) ==
  SelectSeq(args.rows, LAMBDA row : truthy(row.provider) /\ trim(JsString(row.provider)) = key)

\* The rows of a provider that name a transplant center.
NamedRowsOf(key) == SelectSeq(RowsOf(key), LAMBDA row : trimmedOrEmpty(row.otcName) /= <<>>)

\* The position of the first of the rows that carries the code.
FirstWithCode(rows, code) ==
  Least({k \in DOMAIN rows : trimmedOrEmpty(rows[k].otcCode) = code})

\* No two entries share a code, and no entry lists a service twice.
CentersAreDistinct(centers) ==
  /\ \A j, k \in DOMAIN centers : j /= k => centers[j].code /= centers[k].code
  /\ \A k \in DOMAIN centers :
       \A i, j \in DOMAIN centers[k].services :
         i /= j => centers[k].services[i] /= centers[k].services[j]

\* The entries are ordered by the first row among rows that carries their
\* code.
OrderedByFirstRow(centers, rows) ==
  \A j, k \in DOMAIN centers :
    j < k => /\ \E i \in DOMAIN rows : trimmedOrEmpty(rows[i].otcCode) = centers[j].code
             /\ FirstWithCode(rows, centers[j].code) < FirstWithCode(rows, centers[k].code)

\* C24 as stated: within one OPO's transplant_centers no two entries have
\* the same code, no services list has a duplicate, and the entries appear in
\* the order in which their codes first occur in the OPO's rows.
C24_OrderOfFirstOccurrence ==
  ret /= NoCall =>
    \A o \in Range(ret.opos) :
      /\ CentersAreDistinct(o.transplant_centers)
      /\ OrderedByFirstRow(o.transplant_centers, RowsOf(o.provider_number))

\* C24: within one OPO's transplant_centers no two entries have the same
\* code and no services list has a duplicate; there is one entry for each
\* code carried by a row of the OPO that has an OTC name, in the order in
\* which these codes first occur in such rows, with the name of the first
\* such row; and its services are the non-empty service types of the rows
\* with an OTC name and that code.
C24_OrderOfFirstNamedOccurrence ==
  ret /= NoCall =>
    \A o \in Range(ret.opos) :
      LET centers == o.transplant_centers
          named == NamedRowsOf(o.provider_number) IN
      /\ CentersAreDistinct(centers)
      /\ OrderedByFirstRow(centers, named)
      /\ {centers[k].code : k \in DOMAIN centers}
           = {trimmedOrEmpty(named[i].otcCode) : i \in DOMAIN named}
      /\ \A k \in DOMAIN centers :
           /\ centers[k].name
                = trimmedOrEmpty(named[FirstWithCode(named, centers[k].code)].otcName)
           /\ Range(centers[k].services)
                = {trimmedOrEmpty(named[i].service) :
                     i \in {i \in DOMAIN named :
                              /\ trimmedOrEmpty(named[i].otcCode) = centers[k].code
                              /\ trimmedOrEmpty(named[i].service) /= <<>>}}

\* A center was listed by three rows, two of them with different services
\* and one repeating a service, and has one entry with the two services.
C24_Witness ==
  /\ ret /= NoCall
  /\ Len(args.rows) = 3
  /\ \E o \in Range(ret.opos) :
       /\ Len(NamedRowsOf(o.provider_number)) = 3
       /\ Len(o.transplant_centers) = 1
       /\ Len(o.transplant_centers[1].services) = 2

\* ------------------------------------------------------------------------
\* SRTR extractor (scrapers/srtr.js): parseUtilizationData
\* ------------------------------------------------------------------------

\* Number of leading rows (the header row included) the search for a code
\* column looks at.
SrtrProbeRows == 10

\* h && typeof h === 'string' && /opo.*code|center.*code|code/i.test(h):
\* every alternative contains "code".
isCodeHeader(h) ==
  truthy(h) /\ h.t = "string" /\ includes(toLowerCase(h.s), <<"c", "o", "d", "e">>)

\* val && typeof val === 'string' && /^[A-Z]{4}$/.test(val)
isOpoCode(val) ==
  /\ truthy(val)
  /\ val.t = "string"
  /\ Len(val.s) = 4
  /\ \A k \in 1..4 : IsUpper(val.s[k])

\* The entry built for a row: the trimmed text of every truthy header but
\* the code column's, with the row's cell or null; a later column of the same
\* name overwrites an earlier one.
entryOf(row, headerRow, opoColIdx) ==
  LET cols == {j \in 0..(Len(headerRow) - 1) : truthy(cellAt(headerRow, j)) /\ j /= opoColIdx}
      key(j) == trim(JsString(cellAt(headerRow, j))) IN
  [k \in {key(j) : j \in cols} |->
     nullish(cellAt(row, Greatest({j \in cols : key(j) = k})), JsNull)]

\* opoData[code].sheets[sheetName].push(entry), creating what is missing.
pushEntry(opoData, code, sheetName, entry) ==
  LET sheets == IF code \in DOMAIN opoData THEN opoData[code].sheets ELSE <<>>
      list == IF sheetName \in DOMAIN sheets THEN sheets[sheetName] ELSE <<>> IN
  [c \in DOMAIN opoData \cup {code} |->
     IF c /= code THEN opoData[c]
     ELSE [sheets |-> [s \in DOMAIN sheets \cup {sheetName} |->
                         IF s = sheetName THEN Append(list, entry) ELSE sheets[s]]]]

RECURSIVE parseSheetWithOpoCol(_, _, _, _, _)
\* parseSheetWithOpoCol for the rows 1..last (counted from 0).
parseSheetWithOpoCol(rows, last, opoColIdx, opoData, sheetName) ==
  IF last < 1 THEN opoData
  ELSE LET before == parseSheetWithOpoCol(rows, last - 1, opoColIdx, opoData, sheetName)
           row == rowAt(rows, last)
           code == cellAt(row, opoColIdx) IN
       IF ~isOpoCode(code) THEN before
       ELSE pushEntry(before, code.s, sheetName, entryOf(row, rowAt(rows, 0), opoColIdx))

RECURSIVE probeSheet(_, _, _, _)
\* The search of a sheet without a code header, for the rows 1..last: each
\* row with a code-shaped cell has the sheet parsed with the column of its
\* first such cell; the break leaves the loop over the columns only.
probeSheet(rows, last, opoData, sheetName) ==
  IF last < 1 THEN opoData
  ELSE LET before == probeSheet(rows, last - 1, opoData, sheetName)
           hits == {col \in 0..(Len(rowAt(rows, last)) - 1) :
                      isOpoCode(cellAt(rowAt(rows, last), col))} IN
       IF hits = {} THEN before
       ELSE parseSheetWithOpoCol(rows, Len(rows) - 1, Least(hits), before, sheetName)

RECURSIVE parseUtilizationData(_)
\* parseUtilizationData on the sheets in SheetNames order.
parseUtilizationData(workbook) ==
  IF workbook = <<>> THEN <<>>
  ELSE LET opoData == parseUtilizationData(SubSeq(workbook, 1, Len(workbook) - 1))
           sheet == workbook[Len(workbook)]
           rows == sheet.rows
           headed == {j \in 0..(Len(rowAt(rows, 0)) - 1) : isCodeHeader(cellAt(rowAt(rows, 0), j))} IN
       IF Len(rows) < 2 THEN opoData
       ELSE IF headed = {}
       THEN probeSheet(rows, Least({Len(rows), SrtrProbeRows}) - 1, opoData, sheet.name)
       ELSE parseSheetWithOpoCol(rows, Len(rows) - 1, Least(headed), opoData, sheet.name)

ParseUtilizationData ==
  /\ args.fn = "parseUtilizationData"
  /\ ret = NoCall
  /\ ret' = [opoData |-> parseUtilizationData(args.workbook)]
  /\ UNCHANGED <<args, mergeVars, idVars, finVars, cliVars>>

\* Workbooks of one or two sheets, each with a header row that names a code
\* column or does not, and up to MaxDataRows data rows: a code in the first
\* column, another code there, a code in the second column only, or no code.
InitUtilization ==
  /\ \E n \in 1..2 :
       \E sheets \in [1..n ->
            { <<header>> \o data :
                header \in { <<Str(<<"O", "P", "O", " ", "C", "o", "d", "e">>), Str(<<" ", "D", "o", "n", "o", "r", "s", " ">>)>>,
                             <<Str(<<"O", "P", "O">>), Str(<<"D", "o", "n", "o", "r", "s">>)>> },
                data \in UNION { [1..m -> { <<Str(<<"A", "L", "O", "B">>), Num(1, 0)>>,
                                            <<Str(<<"A", "Z", "O", "B">>), Num(2, 0)>>,
                                            <<Str(<<"t", "o", "t", "a", "l">>), Str(<<"A", "L", "O", "B">>)>>,
                                            <<JsNull, Num(3, 0)>> }] :
                                 m \in 0..MaxDataRows } }] :
         args = [ fn |-> "parseUtilizationData",
                  workbook |-> [k \in 1..n |->
                                  [ name |-> IF k = 1 THEN "Table B1" ELSE "Table C1",
                                    rows |-> sheets[k] ]] ]
  /\ ret = NoCall
  /\ MergeIdle /\ IdIdle /\ FinIdle /\ CliIdle

SpecUtilization == InitUtilization /\ [][ParseUtilizationData]_vars

\* opoData[code].sheets[sheetName], empty when there is none.
EntriesOf(code, sheetName) ==
  IF code \in DOMAIN ret.opoData /\ sheetName \in DOMAIN ret.opoData[code].sheets
  THEN ret.opoData[code].sheets[sheetName]
  ELSE <<>>

\* The data rows of a sheet whose cell in the column is the code.
RowsWithCode(rows, col, code) ==
  {i \in 1..(Len(rows) - 1) : cellAt(rowAt(rows, i), col) = Str(code)}

\* The columns a sheet's codes can be taken from: the header's code column,
\* or any column when the header names none.
IdentifierColumns(rows) ==
  LET width == Len(rowAt(rows, 0))
      headed == {j \in 0..(width - 1) : isCodeHeader(cellAt(rowAt(rows, 0), j))} IN
  IF headed /= {} THEN {Least(headed)} ELSE 0..(width - 1)

\* For one column of the sheet, every code has exactly one entry per data
\* row that carries it in that column.
RecordedOnce(sheet) ==
  \E col \in IdentifierColumns(sheet.rows) :
    \A code \in {<<"A", "L", "O", "B">>, <<"A", "Z", "O", "B">>} :
      Len(EntriesOf(code, sheet.name)) = Cardinality(RowsWithCode(sheet.rows, col, code))

\* C26 as stated: for every sheet, with or without a recognised code header,
\* each data row whose identifier cell is a code contributes exactly one entry
\* to opoData[code].sheets[sheetName].
C26_EachRowRecordedOnce ==
  ret /= NoCall =>
    \A k \in DOMAIN args.workbook : RecordedOnce(args.workbook[k])

\* What the code ensures: the claim holds for every sheet whose header names
\* a code column, and for every sheet with at most one code-shaped cell row
\* among its probe rows.
C26_HeadedSheetsRecordedOnce ==
  ret /= NoCall =>
    \A k \in DOMAIN args.workbook :
      LET rows == args.workbook[k].rows
          probed == {i \in 1..(Len(rows) - 1) :
                       \E col \in 0..1 : isOpoCode(cellAt(rowAt(rows, i), col))} IN
      (Cardinality(IdentifierColumns(rows)) = 1 \/ Cardinality(probed) <= 1)
        => RecordedOnce(args.workbook[k])

====
